---- MODULE Spec2Model ----
(***************************************************************************)
(* Model of the generic red-black tree of rbtree.h.                        *)
(*                                                                         *)
(* A node address is a small positive integer, NULL is 0.  The fields of   *)
(* struct rbnode (p, l, r, col) and the key bytes stored right after the   *)
(* node header are functions from addresses to values; the fields of       *)
(* struct rbtree that change (root, cnt) are variables of their own.       *)
(* Every public function is one action; its helpers are operators over a   *)
(* record h that holds the whole heap, so that an action covers the        *)
(* complete call, fixup included.                                          *)
(*                                                                         *)
(* The tree is generic over its comparator.  Spec runs it with an integer  *)
(* comparator, SpecPre with a comparator under which different keys can    *)
(* compare equal, SpecTrav adds the traversals, SpecMap is the string map  *)
(* of map.h on top of the tree, and SpecAll is Spec and SpecMap together.  *)
(***************************************************************************)
EXTENDS Integers, Sequences, FiniteSets, TLC

\* ------------------------------------------------------------------ bounds
\* Number of node addresses the allocator hook can hand out; SpecGrow fills
\* them all.
MaxNodes == 8
\* Cap on the tree's cnt field (rbtree_delete never lowers it, so it is the
\* number of successful inserts of a run).
MaxCnt == 6
\* Cap on the number of map_insert calls of a run of SpecMap.
MaxMapCnt == 3

\* --------------------------------------------------------------- constants
Nil == 0
\* sizeof(((struct _map_key *)0)->hash)
HashLen == 8
\* Addresses above CallerBase are the caller's own strings.
CallerBase == 100
\* Payload pointers handed to map_insert lie above DataBase.
DataBase == 200
\* stack_cap of rbtree_preorder
PreorderStackCap == 4048
RB_RED == 1
RB_BLACK == 0

Node == 1 .. MaxNodes
\* The blocks realloc can hand out for copies of key strings: one for each
\* map_insert call and one to spare.
StrBlk == 1 .. MaxMapCnt + 1
\* The stack-local sentinel `dummy' of rbtree_delete has an address of its own.
Dummy == MaxNodes + 1
Addr == Node \cup {Dummy}
\* Integer keys of the test comparator; 0 is the all-zero key of memset.
Keys == {10, 20, 30}

\* Keys of SpecPre: the comparator cmp_tens looks at the tens only, so 10 and
\* 11 are different keys that compare equal.
KeysPre == {10, 11, 20}

VARIABLES root, cnt, p, l, r, col, key, live, op, arg, ret, fault, rots,
          tcmp, data, visit, strs, given, trail, gio, opts

\* tcmp is the comparator the tree was initialised with (struct rbtree's cmp),
\* data the payload bytes that follow each node's key, visit the nodes a
\* traversal has handed to its callback, strs the heap blocks that hold the
\* map's copies of long key strings, and given the map_insert calls that have
\* returned (key string, payload, return value).  trail lists, for the last
\* call, the current node of the fixup loop and its depth below the root at
\* every test of the loop condition (c = 0) and at every case of the delete
\* fixup that was taken (c = 1 .. 4), and the nodes handed to rbnode_free
\* (c = 5), in the order they happened.
\* gio is the in-memory stream (struct gio_mem: the bytes of buf, sz and off)
\* and opts the option table handed to opts_parse (struct opt's flags, set and
\* params for each entry); the tree and the map touch neither.
vars == <<root, cnt, p, l, r, col, key, live, op, arg, ret, fault, rots,
          tcmp, data, visit, strs, given, trail, gio, opts>>

\* No stream has been initialised and no option table declared.
NoGio == [buf |-> <<>>, sz |-> 0, off |-> 0]
NoOpts == <<>>

\* The heap as one value: struct rbtree's root and cnt, every node's fields,
\* ok, which turns FALSE when an RB_ASSERT fails or NULL is written through,
\* and rots, the number of rotations the current call has made.
Heap == [root |-> root, cnt |-> cnt, p |-> p, l |-> l, r |-> r,
         col |-> col, key |-> key, ok |-> TRUE, rots |-> 0,
         cmp |-> tcmp, data |-> data, strs |-> strs, trail |-> <<>>]

\* ----------------------------------------------------------------- helpers
\* int comparator over two keys: negative, zero or positive.
cmp(a, b) == IF a < b THEN -1 ELSE IF a > b THEN 1 ELSE 0

\* A comparator that is a preorder and not an order: it compares the tens of
\* its two keys, so cmp_tens(10, 11) = 0.
cmp_tens(a, b) == cmp(a \div 10, b \div 10)

\* memcmp and strcmp: the sign of the first difference of two byte sequences
\* of the same length, from position i on.
RECURSIVE BytesCmp(_, _, _)
BytesCmp(a, b, i) ==
  IF i > Len(a) THEN 0
  ELSE IF a[i] # b[i] THEN cmp(a[i], b[i])
  ELSE BytesCmp(a, b, i + 1)

\* s with its terminating NUL, padded with zero bytes to n bytes.
Padded(s, n) == [i \in 1 .. n |-> IF i <= Len(s) THEN s[i] ELSE 0]

memcmp(a, b) == BytesCmp(a, b, 1)

strcmp(s, t) ==
  IF Len(s) >= Len(t) THEN BytesCmp(Padded(s, Len(s) + 1), Padded(t, Len(s) + 1), 1)
  ELSE BytesCmp(Padded(s, Len(t) + 1), Padded(t, Len(t) + 1), 1)

\* The strings the map is driven with: a short one, one of exactly
\* sizeof(hash) bytes, and two longer ones that start with those same bytes.
Str1 == <<1>>
Str8 == <<1, 2, 3, 4, 5, 6, 7, 8>>
Str9x == <<1, 2, 3, 4, 5, 6, 7, 8, 1>>
Str9y == <<1, 2, 3, 4, 5, 6, 7, 8, 2>>
CallerStrs == <<Str1, Str8, Str9x, Str9y>>
MapStrings == {CallerStrs[i] : i \in 1 .. Len(CallerStrs)}

\* A char pointer is NULL (0), a heap block of strs, or the address of one of
\* the caller's own strings, CallerBase + its index in CallerStrs.
CallerPtr(s) == CallerBase + (CHOOSE i \in 1 .. Len(CallerStrs) : CallerStrs[i] = s)

\* The string a non-NULL char pointer points at.  A freed block still holds
\* the bytes it was freed with until the allocator hands it out again.
Deref(h, ptr) ==
  IF ptr > CallerBase THEN CallerStrs[ptr - CallerBase] ELSE h.strs[ptr].s

\* The comparison reads a freed block.
Dangling(h, ptr) == ptr # 0 /\ ptr < CallerBase /\ ~h.strs[ptr].live

\* Variant: the comparison stops at the hash bytes.
MapKeyCmpPrefixOnly(h, a, b) == memcmp(a.hash, b.hash)

\* _map_key_cmp over two struct _map_key.
_map_key_cmp(h, a, b) ==
  IF memcmp(a.hash, b.hash) = 0 /\ a.key # 0 /\ b.key # 0
  THEN strcmp(Deref(h, a.key), Deref(h, b.key))
  ELSE memcmp(a.hash, b.hash)

\* t->cmp(a, b): the comparator the tree was initialised with.
t_cmp(h, a, b) ==
  IF h.cmp = "map" THEN _map_key_cmp(h, a, b)
  ELSE IF h.cmp = "tens" THEN cmp_tens(a, b)
  ELSE cmp(a, b)

\* The key bytes of a node after memset(n, 0, ...).
ZeroKey(h) ==
  IF h.cmp = "map" THEN [hash |-> Padded(<<>>, HashLen), key |-> 0] ELSE 0

Check(h, cond) == [h EXCEPT !.ok = h.ok /\ cond]

\* The number of parent links from n up to the root.
RECURSIVE DepthIn(_, _)
DepthIn(h, n) == IF h.p[n] = Nil THEN 0 ELSE 1 + DepthIn(h, h.p[n])

\* Case c of the delete fixup is taken with current node n.
CaseTaken(h, n, c) ==
  [h EXCEPT !.trail = Append(h.trail, [n |-> n, d |-> DepthIn(h, n), c |-> c])]

\* The condition of a fixup loop is tested with current node n.
LoopTest(h, n) == CaseTaken(h, n, 0)

\* A pointer variable is a location: <<"root", 0>> is &t->root, <<"l", n>> is
\* &n->l and so on.
Load(h, loc) == IF loc[1] = "root" THEN h.root ELSE h[loc[1]][loc[2]]

Store(h, loc, v) ==
  IF loc[1] = "root" THEN [h EXCEPT !.root = v]
  ELSE IF loc[2] \in Addr THEN [h EXCEPT ![loc[1]][loc[2]] = v]
  ELSE [h EXCEPT !.ok = FALSE]

rb_is_red(h, n) == h.col[n] = RB_RED

rb_is_black(h, n) == n = Nil \/ h.col[n] = RB_BLACK

rb_set_color(h, n, c) == Store(h, <<"col", n>>, c)

rb_get_color(h, n) == h.col[n]

rb_copy_color(h, dst, src) == rb_set_color(h, dst, rb_get_color(h, src))

\* Bitwise exclusive or of two naturals.
RECURSIVE Xor(_, _)
Xor(a, b) ==
  IF a = 0 /\ b = 0 THEN 0
  ELSE (((a % 2) + (b % 2)) % 2) + 2 * Xor(a \div 2, b \div 2)

\* One XOR assignment through two pointers: *a ^= *b.
XorInto(h, a, b) == Store(h, a, Xor(Load(h, a), Load(h, b)))

\* *a ^= *b; *b ^= *a; *a ^= *b: on two different locations the values change
\* places.
_rbnode_ptrswap(h, a, b) == XorInto(XorInto(XorInto(h, a, b), b, a), a, b)

\* The location of the parent's link that holds n (n->p is not NULL).
_rbnode_which_child(h, n) ==
  IF n = h.r[h.p[n]] THEN <<"r", h.p[n]>> ELSE <<"l", h.p[n]>>

\* The RB_ASSERTs of _rbnode_which_child.
WhichChildOk(h, n) == n # Nil /\ (n = h.r[h.p[n]] \/ n = h.l[h.p[n]])

\* Each function body below is the composition of its statements, every
\* statement an operator from the heap before it to the heap after it.
\* Variant: the left rotation does not re-parent the inner subtree.
LrotInnerLeftBehind(h, n) ==
  LET Enter(g) == [Check(g, g.r[n] # Nil) EXCEPT !.rots = g.rots + 1]
      Rehome(g) ==
        IF g.p[n] # Nil
        THEN Store(Check(g, WhichChildOk(g, n)), _rbnode_which_child(g, n), g.r[n])
        ELSE [Check(g, n = g.root) EXCEPT !.root = g.r[n]]
      Swap1(g) == _rbnode_ptrswap(g, <<"p", g.r[n]>>, <<"l", g.r[n]>>)
      Swap2(g) == _rbnode_ptrswap(g, <<"p", n>>, <<"p", g.r[n]>>)
      Swap3(g) == _rbnode_ptrswap(g, <<"p", n>>, <<"r", n>>)
  IN Swap3(Swap2(Swap1(Rehome(Enter(h)))))

_rbtree_lrot(h, n) ==
  LET Enter(g) == [Check(g, g.r[n] # Nil) EXCEPT !.rots = g.rots + 1]
      Rehome(g) ==
        IF g.p[n] # Nil
        THEN Store(Check(g, WhichChildOk(g, n)), _rbnode_which_child(g, n), g.r[n])
        ELSE [Check(g, n = g.root) EXCEPT !.root = g.r[n]]
      Inner(g) ==
        IF g.l[g.r[n]] # Nil THEN Store(g, <<"p", g.l[g.r[n]]>>, n) ELSE g
      Swap1(g) == _rbnode_ptrswap(g, <<"p", g.r[n]>>, <<"l", g.r[n]>>)
      Swap2(g) == _rbnode_ptrswap(g, <<"p", n>>, <<"p", g.r[n]>>)
      Swap3(g) == _rbnode_ptrswap(g, <<"p", n>>, <<"r", n>>)
  IN Swap3(Swap2(Swap1(Inner(Rehome(Enter(h))))))

_rbtree_rrot(h, n) ==
  LET Enter(g) == [Check(g, g.l[n] # Nil) EXCEPT !.rots = g.rots + 1]
      Rehome(g) ==
        IF g.p[n] # Nil
        THEN Store(Check(g, WhichChildOk(g, n)), _rbnode_which_child(g, n), g.l[n])
        ELSE [Check(g, n = g.root) EXCEPT !.root = g.l[n]]
      Inner(g) ==
        IF g.r[g.l[n]] # Nil THEN Store(g, <<"p", g.r[g.l[n]]>>, n) ELSE g
      Swap1(g) == _rbnode_ptrswap(g, <<"p", g.l[n]>>, <<"r", g.l[n]>>)
      Swap2(g) == _rbnode_ptrswap(g, <<"p", n>>, <<"p", g.l[n]>>)
      Swap3(g) == _rbnode_ptrswap(g, <<"p", n>>, <<"l", n>>)
  IN Swap3(Swap2(Swap1(Inner(Rehome(Enter(h))))))

\* rb_set_color(m->p, c)
SetParentColor(h, m, c) == rb_set_color(h, h.p[m], c)

\* The while loop of _rbtree_insert_fixup, from node n.
RECURSIVE InsertFixupLoop(_, _)
InsertFixupLoop(h, n) ==
  IF h.p[n] # Nil /\ rb_is_red(h, h.p[n]) THEN
    LET gp == h.p[h.p[n]]
        Entered == Check(LoopTest(h, n), h.p[n] # h.root)
        GpRed(g) == rb_set_color(g, gp, RB_RED)
        \* parent is the left child of gp
        UncleBlackL(g) == rb_set_color(g, g.r[gp], RB_BLACK)
        TriangleL(g) == IF n = g.r[g.p[n]] THEN _rbtree_lrot(g, g.p[n]) ELSE g
        NodeL == IF n = h.r[h.p[n]] THEN h.p[n] ELSE n
        \* parent is the right child of gp
        AssertR(g) == Check(g, g.p[n] = g.r[gp])
        UncleBlackR(g) == rb_set_color(g, g.l[gp], RB_BLACK)
        TriangleR(g) == IF n = g.l[g.p[n]] THEN _rbtree_rrot(g, g.p[n]) ELSE g
        NodeR == IF n = h.l[h.p[n]] THEN h.p[n] ELSE n
    IN IF h.p[n] = h.l[gp] THEN
         IF h.r[gp] # Nil /\ rb_is_red(h, h.r[gp])
         THEN InsertFixupLoop(
                GpRed(UncleBlackL(SetParentColor(Entered, n, RB_BLACK))), gp)
         ELSE InsertFixupLoop(
                _rbtree_rrot(
                  GpRed(SetParentColor(TriangleL(Entered), NodeL, RB_BLACK)), gp),
                NodeL)
       ELSE
         IF h.l[gp] # Nil /\ rb_is_red(h, h.l[gp])
         THEN InsertFixupLoop(
                GpRed(UncleBlackR(SetParentColor(AssertR(Entered), n, RB_BLACK))),
                gp)
         ELSE InsertFixupLoop(
                _rbtree_lrot(
                  GpRed(SetParentColor(TriangleR(AssertR(Entered)), NodeR,
                                       RB_BLACK)), gp),
                NodeR)
  ELSE LoopTest(h, n)

\* Variant: the root keeps the colour the loop left it with.
SetRootKept(h) == h

\* rb_set_color(t->root, RB_BLACK)
SetRootBlack(h) == rb_set_color(h, h.root, RB_BLACK)

\* Variant: the final recolouring of the root is left out.
InsertFixupRootKept(h, n) == InsertFixupLoop(h, n)

\* Variant: no fixup at all, the new node stays where the descent put it.
InsertFixupSkipped(h, n) == h

\* Variant: the loop is left out, only the root is recoloured.
InsertFixupNoLoop(h, n) == SetRootBlack(h)

_rbtree_insert_fixup(h, n) == SetRootBlack(InsertFixupLoop(h, n))

\* Variant: the descent turns the wrong way (right on smaller keys).
RECURSIVE InsertDescendReversed(_, _, _, _)
InsertDescendReversed(h, k, node, parent) ==
  IF Load(h, node) # Nil THEN
    IF t_cmp(h, k, h.key[Load(h, node)]) < 0
    THEN InsertDescendReversed(h, k, <<"r", Load(h, node)>>, Load(h, node))
    ELSE InsertDescendReversed(h, k, <<"l", Load(h, node)>>, Load(h, node))
  ELSE [node |-> node, parent |-> parent]

\* Variant: equal keys go right (>= 0 instead of > 0).
RECURSIVE InsertDescendTiesRight(_, _, _, _)
InsertDescendTiesRight(h, k, node, parent) ==
  IF Load(h, node) # Nil THEN
    IF t_cmp(h, k, h.key[Load(h, node)]) >= 0
    THEN InsertDescendTiesRight(h, k, <<"r", Load(h, node)>>, Load(h, node))
    ELSE InsertDescendTiesRight(h, k, <<"l", Load(h, node)>>, Load(h, node))
  ELSE [node |-> node, parent |-> parent]

\* The descent of rbtree_insert: the empty link the key belongs in, and the
\* node that owns the link.
RECURSIVE InsertDescend(_, _, _, _)
InsertDescend(h, k, node, parent) ==
  IF Load(h, node) # Nil THEN
    IF t_cmp(h, k, h.key[Load(h, node)]) > 0
    THEN InsertDescend(h, k, <<"r", Load(h, node)>>, Load(h, node))
    ELSE InsertDescend(h, k, <<"l", Load(h, node)>>, Load(h, node))
  ELSE [node |-> node, parent |-> parent]

\* rbnode_new when the allocator hook returns the block at address n.
rbnode_new(h, n, parent) ==
  [h EXCEPT !.p[n] = parent, !.l[n] = Nil, !.r[n] = Nil, !.key[n] = ZeroKey(h),
            !.data[n] = 0,
            !.col[n] = IF parent # Nil THEN RB_RED ELSE RB_BLACK]

\* rbtree_insert from the link the descent found, the allocator hook returning
\* the block at address n; the result is the heap and the value returned, which
\* the code reads back through the link: return *node.
InsertAt(h, k, n, d) ==
  LET Link(g) == Store(rbnode_new(g, n, d.parent), d.node, n)
      CopyKey(g) == [g EXCEPT !.key[Load(g, d.node)] = k]
      Fixup(g) == _rbtree_insert_fixup(g, Load(g, d.node))
      Count(g) == [g EXCEPT !.cnt = g.cnt + 1]
      Return(g) == [heap |-> g, ret |-> Load(g, d.node)]
  IN Return(Count(Fixup(CopyKey(Link(h)))))

rbtree_insert(h, k, n) ==
  InsertAt(h, k, n, InsertDescend(h, k, <<"root", 0>>, Nil))

\* rbtree_min: the leftmost node below n.
RECURSIVE rbtree_min(_, _)
rbtree_min(h, n) == IF h.l[n] # Nil THEN rbtree_min(h, h.l[n]) ELSE n

\* rbtree_max: the rightmost node below n.
RECURSIVE rbtree_max(_, _)
rbtree_max(h, n) == IF h.r[n] # Nil THEN rbtree_max(h, h.r[n]) ELSE n

\* The while loop of rbtree_successor: the first ancestor reached from its
\* left subtree, NULL when the climb passes the root.
RECURSIVE SuccessorClimb(_, _)
SuccessorClimb(h, n) ==
  IF h.p[n] # Nil
  THEN IF n = h.l[h.p[n]] THEN h.p[n] ELSE SuccessorClimb(h, h.p[n])
  ELSE Nil

\* Variant: with a right child, that child is the answer.
rbtree_successor_right_child(h, n) ==
  IF h.r[n] # Nil THEN h.r[n] ELSE SuccessorClimb(h, n)

rbtree_successor(h, n) ==
  IF h.r[n] # Nil THEN rbtree_min(h, h.r[n]) ELSE SuccessorClimb(h, n)

\* The while loop of rbtree_predecessor.
RECURSIVE PredecessorClimb(_, _)
PredecessorClimb(h, n) ==
  IF h.p[n] # Nil
  THEN IF n = h.r[h.p[n]] THEN h.p[n] ELSE PredecessorClimb(h, h.p[n])
  ELSE Nil

rbtree_predecessor(h, n) ==
  IF h.l[n] # Nil THEN rbtree_max(h, h.l[n]) ELSE PredecessorClimb(h, n)

\* for(n = from; n; n = rbtree_successor(t, n)): the nodes the loop body sees.
RECURSIVE ForwardFrom(_, _)
ForwardFrom(h, n) ==
  IF n = Nil THEN <<>> ELSE <<n>> \o ForwardFrom(h, rbtree_successor(h, n))

\* for(n = from; n; n = rbtree_predecessor(t, n)).
RECURSIVE BackwardFrom(_, _)
BackwardFrom(h, n) ==
  IF n = Nil THEN <<>> ELSE <<n>> \o BackwardFrom(h, rbtree_predecessor(h, n))

\* v->p = u->p, when v is not NULL.
TransplantParent(h, u, v) ==
  IF v # Nil THEN Store(h, <<"p", v>>, h.p[u]) ELSE h

\* Variant: v's parent pointer is left as it was.
TransplantParentKept(h, u, v) ==
  IF h.p[u] # Nil
  THEN Store(Check(h, WhichChildOk(h, u)), _rbnode_which_child(h, u), v)
  ELSE [Check(h, u = h.root) EXCEPT !.root = v]

\* Variant: under a parent, v is always hung on the left.
TransplantAlwaysLeft(h, u, v) ==
  TransplantParent(
    IF h.p[u] # Nil
    THEN Store(h, <<"l", h.p[u]>>, v)
    ELSE [Check(h, u = h.root) EXCEPT !.root = v],
    u, v)

\* Puts v where u hangs (under u's parent or at the root).
rbtree_transplant(h, u, v) ==
  TransplantParent(
    IF h.p[u] # Nil
    THEN Store(Check(h, WhichChildOk(h, u)), _rbnode_which_child(h, u), v)
    ELSE [Check(h, u = h.root) EXCEPT !.root = v],
    u, v)

\* Variant: the search descends right on a smaller key and left on a larger.
RECURSIVE SearchFromReversed(_, _, _)
SearchFromReversed(h, k, node) ==
  IF node # Nil THEN
    IF t_cmp(h, k, h.key[node]) < 0 THEN SearchFromReversed(h, k, h.r[node])
    ELSE IF t_cmp(h, k, h.key[node]) > 0 THEN SearchFromReversed(h, k, h.l[node])
    ELSE node
  ELSE Nil

\* Variant: the search accepts a node only when its key is the query key
\* itself, not when the two merely compare equal.
RECURSIVE SearchFromIdentical(_, _, _)
SearchFromIdentical(h, k, node) ==
  IF node # Nil THEN
    IF t_cmp(h, k, h.key[node]) < 0 THEN SearchFromIdentical(h, k, h.l[node])
    ELSE IF t_cmp(h, k, h.key[node]) > 0 THEN SearchFromIdentical(h, k, h.r[node])
    ELSE IF k = h.key[node] THEN node
    ELSE Nil
  ELSE Nil

\* rbtree_search: the node the descent stops at, NULL when it falls off.
RECURSIVE SearchFrom(_, _, _)
SearchFrom(h, k, node) ==
  IF node # Nil THEN
    IF t_cmp(h, k, h.key[node]) < 0 THEN SearchFrom(h, k, h.l[node])
    ELSE IF t_cmp(h, k, h.key[node]) > 0 THEN SearchFrom(h, k, h.r[node])
    ELSE node
  ELSE Nil

rbtree_search(h, k) == SearchFrom(h, k, h.root)

\* The while loop of _rbtree_delete_fixup, from node n; the result is the heap
\* and the node the loop stopped at.  An iteration has three parts: case 1,
\* which leaves a black sibling w; case 2, which moves n up; and cases 3 and 4,
\* which end the loop at the root.
RECURSIVE DeleteFixupLoop(_, _)

\* n is a left child: case 4 with sibling w.
DeleteCase4L(h, n, w) ==
  LET CopyColor(g) == rb_copy_color(g, w, g.p[n])
      FarBlack(g) == rb_set_color(g, g.r[w], RB_BLACK)
      Rotate(g) == _rbtree_lrot(g, g.p[n])
      Leave(g) == DeleteFixupLoop(g, g.root)
  IN Leave(Rotate(SetParentColor(FarBlack(CopyColor(CaseTaken(h, n, 4))), n,
                                  RB_BLACK)))

\* Variant: case 3 recolours and does not rotate.
DeleteCase3LNoRotation(h, n, w) ==
  LET NearBlack(g) == rb_set_color(g, g.l[w], RB_BLACK)
      Rotated(g) == Check(g, g.r[g.p[n]] = g.p[w])
      Next4(g) == DeleteCase4L(g, n, g.r[g.p[n]])
  IN Next4(Rotated(NearBlack(rb_set_color(CaseTaken(h, n, 3), w, RB_RED))))

\* Variant: case 3 ends the iteration, and the loop comes round to case 4.
DeleteCase3LContinue(h, n, w) ==
  LET NearBlack(g) == rb_set_color(g, g.l[w], RB_BLACK)
      Rotated(g) == Check(g, g.r[g.p[n]] = g.p[w])
      Again(g) == DeleteFixupLoop(g, n)
  IN Again(Rotated(_rbtree_rrot(
       NearBlack(rb_set_color(CaseTaken(h, n, 3), w, RB_RED)), w)))

\* n is a left child: case 3 with sibling w, then case 4 with the new sibling.
DeleteCase3L(h, n, w) ==
  LET NearBlack(g) == rb_set_color(g, g.l[w], RB_BLACK)
      Rotated(g) == Check(g, g.r[g.p[n]] = g.p[w])
      Next4(g) == DeleteCase4L(g, n, g.r[g.p[n]])
  IN Next4(Rotated(_rbtree_rrot(
       NearBlack(rb_set_color(CaseTaken(h, n, 3), w, RB_RED)), w)))

\* n is a left child: cases 2 to 4 with the black sibling w.
DeleteCases234L(h, n, w) ==
  IF rb_is_black(h, h.r[w]) /\ rb_is_black(h, h.l[w])
  THEN DeleteFixupLoop(rb_set_color(CaseTaken(h, n, 2), w, RB_RED), h.p[n])
  ELSE IF rb_is_black(h, h.r[w])
       THEN DeleteCase3L(h, n, w)
       ELSE DeleteCase4L(h, n, w)

\* n is a left child: one iteration, case 1 first.
DeleteIterationL(h, n) ==
  LET Recolor(g, w) ==
        rb_set_color(
          SetParentColor(Check(CaseTaken(g, n, 1), rb_is_black(g, g.p[n])), n,
                         RB_RED),
          w, RB_BLACK)
      Rotate(g) == _rbtree_lrot(g, g.p[n])
      Rest(g, w) == DeleteCases234L(Check(g, rb_is_black(g, w)), n, w)
      Reload(g) == Rest(g, g.r[g.p[n]])
      Case1(g, w) ==
        IF rb_is_red(g, w) THEN Reload(Rotate(Recolor(g, w))) ELSE Rest(g, w)
  IN Case1(Check(LoopTest(h, n), h.r[h.p[n]] # Nil), h.r[h.p[n]])

\* n is a right child: case 4 with sibling w.
DeleteCase4R(h, n, w) ==
  LET CopyColor(g) == rb_copy_color(g, w, g.p[n])
      FarBlack(g) == rb_set_color(g, g.l[w], RB_BLACK)
      Rotate(g) == _rbtree_rrot(g, g.p[n])
      Leave(g) == DeleteFixupLoop(g, g.root)
  IN Leave(Rotate(SetParentColor(FarBlack(CopyColor(CaseTaken(h, n, 4))), n,
                                  RB_BLACK)))

\* n is a right child: case 3 with sibling w, then case 4 with the new sibling.
DeleteCase3R(h, n, w) ==
  LET NearBlack(g) == rb_set_color(g, g.r[w], RB_BLACK)
      Rotated(g) == Check(g, g.l[g.p[n]] = g.p[w])
      Next4(g) == DeleteCase4R(g, n, g.l[g.p[n]])
  IN Next4(Rotated(_rbtree_lrot(
       NearBlack(rb_set_color(CaseTaken(h, n, 3), w, RB_RED)), w)))

\* n is a right child: cases 2 to 4 with the black sibling w.
DeleteCases234R(h, n, w) ==
  IF rb_is_black(h, h.r[w]) /\ rb_is_black(h, h.l[w])
  THEN DeleteFixupLoop(rb_set_color(CaseTaken(h, n, 2), w, RB_RED), h.p[n])
  ELSE IF rb_is_black(h, h.l[w])
       THEN DeleteCase3R(h, n, w)
       ELSE DeleteCase4R(h, n, w)

\* n is a right child: one iteration, case 1 first.
DeleteIterationR(h, n) ==
  LET Recolor(g, w) ==
        rb_set_color(
          SetParentColor(Check(CaseTaken(g, n, 1), rb_is_black(g, g.p[n])), n,
                         RB_RED),
          w, RB_BLACK)
      Rotate(g) == _rbtree_rrot(g, g.p[n])
      Rest(g, w) == DeleteCases234R(Check(g, rb_is_black(g, w)), n, w)
      Reload(g) == Rest(g, g.l[g.p[n]])
      Case1(g, w) ==
        IF rb_is_red(g, w) THEN Reload(Rotate(Recolor(g, w))) ELSE Rest(g, w)
  IN Case1(Check(Check(LoopTest(h, n), n = h.r[h.p[n]]), h.l[h.p[n]] # Nil),
           h.l[h.p[n]])

DeleteFixupLoop(h, n) ==
  IF h.p[n] # Nil /\ rb_is_black(h, n) THEN
    IF n = h.l[h.p[n]] THEN DeleteIterationL(h, n) ELSE DeleteIterationR(h, n)
  ELSE [heap |-> LoopTest(h, n), n |-> n]

\* rb_set_color(n, RB_BLACK) on the node the loop stopped at.
DeleteFixupLeave(res) == rb_set_color(res.heap, res.n, RB_BLACK)

\* Variant: the node the loop stops at is not forced black.
DeleteFixupNoBlacken(h, n) == DeleteFixupLoop(Check(h, n # Nil), n).heap

_rbtree_delete_fixup(h, n) ==
  DeleteFixupLeave(DeleteFixupLoop(Check(h, n # Nil), n))

\* rbtree_delete, first two cases: n has no left child (side "r": its right
\* child, or the sentinel, takes its place) or no right child (side "l").
DeleteSpliceOne(h, n, side, v) ==
  [heap |-> Store(rbtree_transplant(h, n, v), <<side, n>>, Nil),
   x |-> v, col |-> rb_get_color(h, n)]

\* Variant: the successor takes n's place and leaves n's left subtree behind.
DeleteSpliceTwoLeftDropped(h, n, s, x) ==
  LET Sentinel(g) ==
        IF g.r[s] = Nil
        THEN Store(Store(g, <<"r", s>>, Dummy), <<"p", Dummy>>, s)
        ELSE g
      TakeRight(g) == Store(Store(g, <<"r", s>>, g.r[n]), <<"p", g.r[n]>>, s)
      Unhook(g) ==
        IF g.p[s] = n
        THEN Store(Check(Check(g, x # Nil), g.p[x] = s), <<"p", x>>, s)
        ELSE TakeRight(rbtree_transplant(Check(g, x # Nil), s, g.r[s]))
  IN [heap |-> rb_copy_color(
                 rbtree_transplant(Unhook(Sentinel(h)), n, s), s, n),
      x |-> x, col |-> rb_get_color(h, s)]

\* rbtree_delete, third case: the successor s of n takes n's place and x, the
\* right child of s or the sentinel, takes the place of s.
DeleteSpliceTwo(h, n, s, x) ==
  LET Sentinel(g) ==
        IF g.r[s] = Nil
        THEN Store(Store(g, <<"r", s>>, Dummy), <<"p", Dummy>>, s)
        ELSE g
      TakeRight(g) == Store(Store(g, <<"r", s>>, g.r[n]), <<"p", g.r[n]>>, s)
      Unhook(g) ==
        IF g.p[s] = n
        THEN Store(Check(Check(g, x # Nil), g.p[x] = s), <<"p", x>>, s)
        ELSE TakeRight(rbtree_transplant(Check(g, x # Nil), s, g.r[s]))
      TakeLeft(g) == Store(Store(g, <<"l", s>>, g.l[n]), <<"p", g.l[n]>>, s)
  IN [heap |-> rb_copy_color(
                 TakeLeft(rbtree_transplant(Unhook(Sentinel(h)), n, s)), s, n),
      x |-> x, col |-> rb_get_color(h, s)]

\* The three structural cases of rbtree_delete, up to the fixup: the heap, the
\* node x that took the spliced-out node's place, and that node's colour.
DeleteSplice(h, n) ==
  IF h.l[n] = Nil
  THEN DeleteSpliceOne(h, n, "r", IF h.r[n] # Nil THEN h.r[n] ELSE Dummy)
  ELSE IF h.r[n] = Nil
  THEN DeleteSpliceOne(h, n, "l", IF h.l[n] # Nil THEN h.l[n] ELSE Dummy)
  ELSE DeleteSpliceTwo(h, n, rbtree_min(h, h.r[n]),
                       IF h.r[rbtree_min(h, h.r[n])] # Nil
                       THEN h.r[rbtree_min(h, h.r[n])]
                       ELSE Dummy)

\* The index of the highest bit set in x, x > 0.
RECURSIVE HighBit(_)
HighBit(x) == IF x <= 1 THEN 0 ELSE 1 + HighBit(x \div 2)

\* ullog2_ceil for x > 0: the highest bit, plus one when a lower bit is set
\* too.  For x = 0 the code runs into RB_ASSERT(0); the callers below test for
\* that before they use the value.
ullog2_ceil(x) == HighBit(x) + (IF 2 ^ HighBit(x) # x THEN 1 ELSE 0)

_rbtree_max_possible_height(h) == 2 * ullog2_ceil(h.cnt)

_rbtree_max_possible_leafs(h) == 2 ^ _rbtree_max_possible_height(h)

\* The state of a stack walk: the current node n, the stack, the nodes handed
\* to the callback so far (out), ok for the RB_ASSERTs, over when a push wrote
\* past the stack_cap entries of the buffer, peak the largest number of nodes
\* the stack held.
WalkStart(h, cap) ==
  [n |-> h.root, stack |-> <<>>, out |-> <<>>, ok |-> TRUE, over |-> FALSE,
   cap |-> cap, peak |-> 0]

\* RB_ASSERT(i <= stack_cap)
WalkAssertCap(w) == [w EXCEPT !.ok = w.ok /\ Len(w.stack) <= w.cap]

\* Variant: the call of the callback is left out.
WalkNoCallback(w) == w

\* cb(n, user)
WalkCallback(w) == [w EXCEPT !.out = Append(w.out, w.n)]

\* n = (stack[i++] = n)->child
WalkPush(w, child) ==
  [w EXCEPT !.stack = Append(w.stack, w.n), !.n = child,
            !.over = w.over \/ Len(w.stack) >= w.cap,
            !.peak = IF Len(w.stack) + 1 > w.peak THEN Len(w.stack) + 1
                     ELSE w.peak]

WalkTop(w) == w.stack[Len(w.stack)]

\* n = stack[--i]
WalkPop(w) ==
  [w EXCEPT !.n = WalkTop(w), !.stack = SubSeq(w.stack, 1, Len(w.stack) - 1)]

\* RB_ASSERT(stack[i-1]->l == n); n = stack[--i]
WalkPopLeft(h, w) == [WalkPop(w) EXCEPT !.ok = w.ok /\ h.l[WalkTop(w)] = w.n]

\* The loop of rbtree_preorder from the label pc on.
RECURSIVE PreorderWalk(_, _, _)
PreorderWalk(h, w, pc) ==
  IF pc = "for" THEN
    IF h.l[w.n] # Nil
    THEN PreorderWalk(h, WalkPush(WalkCallback(WalkAssertCap(w)), h.l[w.n]), "for")
    ELSE PreorderWalk(h, WalkCallback(WalkAssertCap(w)), "checkright")
  ELSE IF pc = "checkright" THEN
    IF h.r[w.n] # Nil
    THEN PreorderWalk(h, WalkPush(w, h.r[w.n]), "for")
    ELSE PreorderWalk(h, w, "backtrack")
  ELSE IF Len(w.stack) = 0 THEN w
  ELSE IF h.r[WalkTop(w)] = w.n THEN PreorderWalk(h, WalkPop(w), "backtrack")
  ELSE PreorderWalk(h, WalkPopLeft(h, w), "checkright")

\* rbtree_preorder: the walk it has made when it returns.
rbtree_preorder(h) ==
  IF h.root = Nil THEN WalkStart(h, PreorderStackCap)
  ELSE PreorderWalk(h, WalkStart(h, PreorderStackCap), "for")

\* The loop of rbtree_postorder from the label pc on; the callback is called
\* at backtrack, before the test for an empty stack.
RECURSIVE PostorderWalk(_, _, _)
PostorderWalk(h, w, pc) ==
  IF pc = "for" THEN
    IF h.l[w.n] # Nil
    THEN PostorderWalk(h, WalkPush(WalkAssertCap(w), h.l[w.n]), "for")
    ELSE PostorderWalk(h, WalkAssertCap(w), "checkright")
  ELSE IF pc = "checkright" THEN
    IF h.r[w.n] # Nil
    THEN PostorderWalk(h, WalkPush(w, h.r[w.n]), "for")
    ELSE PostorderWalk(h, w, "backtrack")
  ELSE IF Len(w.stack) = 0 THEN WalkCallback(w)
  ELSE IF h.r[WalkTop(w)] = w.n
  THEN PostorderWalk(h, WalkPop(WalkCallback(w)), "backtrack")
  ELSE PostorderWalk(h, WalkPopLeft(h, WalkCallback(w)), "checkright")

\* Variant: the walk calls the callback on the way down, as the pre-order walk
\* does.
PostorderOnTheWayDown(h) ==
  PreorderWalk(h, WalkStart(h, _rbtree_max_possible_leafs(h)), "for")

\* rbtree_postorder on a tree with a root.
rbtree_postorder(h) ==
  PostorderWalk(h, WalkStart(h, _rbtree_max_possible_leafs(h)), "for")

\* The state of rbtree_levelorder: the circular queue, queue_end, the number i
\* of queued nodes, the node n dequeued last, and ok, out, peak as in the stack
\* walks: with more than cap nodes queued, an enqueue has overwritten a node
\* that was still waiting.
QueueStart(cap) ==
  [queue |-> [j \in 0 .. cap - 1 |-> Nil], queue_end |-> 0, i |-> 0, n |-> Nil,
   out |-> <<>>, ok |-> TRUE, cap |-> cap, peak |-> 0]

\* queue[queue_end++] = c; i++; if(queue_end == queue_cap) queue_end = 0
Enqueue(w, c) ==
  [w EXCEPT !.queue[w.queue_end] = c, !.i = w.i + 1,
            !.queue_end = IF w.queue_end + 1 = w.cap THEN 0 ELSE w.queue_end + 1,
            !.peak = IF w.i + 1 > w.peak THEN w.i + 1 ELSE w.peak]

\* RB_ASSERT(i <= queue_cap), then the dequeue.
Dequeue(w) ==
  [w EXCEPT !.ok = w.ok /\ w.i <= w.cap,
            !.n = w.queue[IF w.queue_end >= w.i THEN w.queue_end - w.i
                          ELSE w.cap + w.queue_end - w.i],
            !.i = w.i - 1]

EnqueueLeft(h, w) == IF h.l[w.n] # Nil THEN Enqueue(w, h.l[w.n]) ELSE w

EnqueueRight(h, w) == IF h.r[w.n] # Nil THEN Enqueue(w, h.r[w.n]) ELSE w

\* The while loop of rbtree_levelorder.  Between the dequeue and the enqueues
\* the source has the call of the callback in a comment, so that nothing is
\* handed to cb.
RECURSIVE LevelorderLoop(_, _)
LevelorderLoop(h, w) ==
  IF w.i = 0 THEN w
  ELSE LevelorderLoop(h, EnqueueRight(h, EnqueueLeft(h, Dequeue(w))))

\* rbtree_levelorder on a tree with a root.
rbtree_levelorder(h) ==
  LevelorderLoop(h, Enqueue(QueueStart(_rbtree_max_possible_leafs(h)), h.root))

\* rbnode_free: the block goes back to the allocator hook; its contents are no
\* longer part of the program's state.
rbnode_free(h, n) ==
  [h EXCEPT !.p[n] = Nil, !.l[n] = Nil, !.r[n] = Nil,
            !.col[n] = RB_BLACK, !.key[n] = ZeroKey(h), !.data[n] = 0,
            !.trail = Append(h.trail, [n |-> n, d |-> 0, c |-> 5])]

\* struct rbnode dummy = { .col = RB_BLACK }
DummyInit(h) ==
  [h EXCEPT !.p[Dummy] = Nil, !.l[Dummy] = Nil, !.r[Dummy] = Nil,
            !.col[Dummy] = RB_BLACK]

\* Variant: the deleted node is unlinked and never released.
DeleteFinishNoFree(sp, n) ==
  LET Fixup(g) == IF sp.col = RB_BLACK THEN _rbtree_delete_fixup(g, sp.x) ELSE g
      Detach(g) == IF sp.x = Dummy THEN rbtree_transplant(g, Dummy, Nil) ELSE g
      Closing(g) == Check(Check(g, g.r[Dummy] = Nil), g.l[Dummy] = Nil)
  IN DummyInit(Closing(Detach(Fixup(sp.heap))))

\* Variant: the sentinel is left where the fixup found it.
DeleteFinishSentinelLeft(sp, n) ==
  LET Fixup(g) == IF sp.col = RB_BLACK THEN _rbtree_delete_fixup(g, sp.x) ELSE g
      Closing(g) == Check(Check(g, g.r[Dummy] = Nil), g.l[Dummy] = Nil)
  IN DummyInit(rbnode_free(Closing(Fixup(sp.heap)), n))

\* rbtree_delete after the structural case sp: fixup, removal of the sentinel,
\* the two closing RB_ASSERTs, and the release of n.  The sentinel's own
\* storage ends with the call.
DeleteFinish(sp, n) ==
  LET Fixup(g) == IF sp.col = RB_BLACK THEN _rbtree_delete_fixup(g, sp.x) ELSE g
      Detach(g) == IF sp.x = Dummy THEN rbtree_transplant(g, Dummy, Nil) ELSE g
      Closing(g) == Check(Check(g, g.r[Dummy] = Nil), g.l[Dummy] = Nil)
  IN DummyInit(rbnode_free(Closing(Detach(Fixup(sp.heap))), n))

\* rbtree_delete of node n.
rbtree_delete(h, n) == DeleteFinish(DeleteSplice(DummyInit(h), n), n)

\* A caller's write of payload d through rbnode_get_data(t, n).
rbnode_set_data(h, n, d) == [h EXCEPT !.data[n] = d]

\* ------------------------------------------------------------------- map.h
\* The first sizeof(hash) bytes of a string longer than that.
Prefix(str) == [i \in 1 .. HashLen |-> str[i]]

\* Variant: the local flag is ignored and the string is always copied.
MapKeyInitAlwaysCopies(h, str, local, blk) ==
  IF Len(str) > HashLen THEN
    IF blk = Nil
    THEN [rc |-> -1, heap |-> h, mkey |-> [hash |-> Padded(<<>>, HashLen), key |-> 0]]
    ELSE [rc |-> 0, heap |-> [h EXCEPT !.strs[blk] = [s |-> str, live |-> TRUE]],
          mkey |-> [hash |-> Prefix(str), key |-> blk]]
  ELSE [rc |-> 0, heap |-> h, mkey |-> [hash |-> Padded(str, HashLen), key |-> 0]]

\* _map_key_init(&mkey, str, local), blk being the block realloc returns when it
\* is called (Nil when it fails): the return value, the heap, and mkey.
_map_key_init(h, str, local, blk) ==
  IF Len(str) > HashLen THEN
    IF local
    THEN [rc |-> 0, heap |-> h, mkey |-> [hash |-> Prefix(str), key |-> CallerPtr(str)]]
    ELSE IF blk = Nil
    THEN [rc |-> -1, heap |-> h, mkey |-> [hash |-> Padded(<<>>, HashLen), key |-> 0]]
    ELSE [rc |-> 0, heap |-> [h EXCEPT !.strs[blk] = [s |-> str, live |-> TRUE]],
          mkey |-> [hash |-> Prefix(str), key |-> blk]]
  ELSE [rc |-> 0, heap |-> h, mkey |-> [hash |-> Padded(str, HashLen), key |-> 0]]

\* _map_key_free(&mkey): realloc(mkey->key, 0) when key is not NULL.
_map_key_free(h, mkey) ==
  IF mkey.key # 0 THEN [h EXCEPT !.strs[mkey.key].live = FALSE] ELSE h

\* map_insert after rbtree_insert has returned res: cleanup when it returned
\* NULL, the store of the payload otherwise.
MapInsertDone(res, mkey, d) ==
  IF res.ret = Nil
  THEN [heap |-> _map_key_free(res.heap, mkey), ret |-> -1]
  ELSE [heap |-> [res.heap EXCEPT !.data[res.ret] = d], ret |-> 0]

\* map_insert after _map_key_init has returned ki.
MapInsertKeyed(h, ki, d, n) ==
  IF ki.rc # 0 THEN [heap |-> h, ret |-> -1]
  ELSE MapInsertDone(rbtree_insert(ki.heap, ki.mkey, n), ki.mkey, d)

\* map_insert(map, str, d), realloc returning blk for the string and the
\* allocator hook n for the node.
map_insert(h, str, d, blk, n) ==
  MapInsertKeyed(h, _map_key_init(h, str, FALSE, blk), d, n)

\* map_search after _map_key_init has returned ki: the payload found, NULL
\* when there is none, and the heap the call leaves.
MapSearchKeyed(ki) ==
  [heap |-> ki.heap,
   ret |-> IF ki.rc # 0 \/ rbtree_search(ki.heap, ki.mkey) = Nil THEN 0
           ELSE ki.heap.data[rbtree_search(ki.heap, ki.mkey)]]

\* map_search(map, str), blk being the block realloc would return if called.
map_search(h, str, blk) == MapSearchKeyed(_map_key_init(h, str, TRUE, blk))

\* _map_key_cmp(a, b) reads a block that has been freed.
CmpDangling(h, a, b) ==
  /\ memcmp(a.hash, b.hash) = 0
  /\ a.key # 0
  /\ b.key # 0
  /\ (Dangling(h, a.key) \/ Dangling(h, b.key))

\* The descent of rbtree_search for k reads a freed block on its way.
RECURSIVE SearchDangling(_, _, _)
SearchDangling(h, k, node) ==
  IF node = Nil THEN FALSE
  ELSE IF CmpDangling(h, k, h.key[node]) THEN TRUE
  ELSE IF t_cmp(h, k, h.key[node]) < 0 THEN SearchDangling(h, k, h.l[node])
  ELSE IF t_cmp(h, k, h.key[node]) > 0 THEN SearchDangling(h, k, h.r[node])
  ELSE FALSE

\* The descent of rbtree_insert for k reads a freed block on its way.
RECURSIVE InsertDangling(_, _, _)
InsertDangling(h, k, node) ==
  IF node = Nil THEN FALSE
  ELSE IF CmpDangling(h, k, h.key[node]) THEN TRUE
  ELSE IF t_cmp(h, k, h.key[node]) > 0 THEN InsertDangling(h, k, h.r[node])
  ELSE InsertDangling(h, k, h.l[node])

\* ------------------------------------------------------------ specification
\* rbtree_init(t, cmp, ...) with comparator c: an empty tree over a heap with
\* nothing allocated.
InitTree(c) ==
  /\ root = Nil
  /\ cnt = 0
  /\ p = [n \in Addr |-> Nil]
  /\ l = [n \in Addr |-> Nil]
  /\ r = [n \in Addr |-> Nil]
  /\ col = [n \in Addr |-> RB_BLACK]
  /\ key = [n \in Addr |-> ZeroKey([cmp |-> c])]
  /\ live = {}
  /\ op = "init"
  /\ arg = 0
  /\ ret = Nil
  /\ fault = "none"
  /\ rots = 0
  /\ tcmp = c
  /\ data = [n \in Addr |-> 0]
  /\ visit = <<>>
  /\ strs = [b \in StrBlk |-> [s |-> <<>>, live |-> FALSE]]
  /\ given = {}
  /\ trail = <<>>

InitWith(c) ==
  /\ InitTree(c)
  /\ gio = NoGio
  /\ opts = NoOpts

Init == InitWith("int")

\* The address the allocator hook returns: any block that is not in use; the
\* lowest one stands for all of them.
Alloc == CHOOSE n \in Node \ live : \A m \in Node \ live : n <= m

\* The outcomes of a call whose comparisons read a freed block (dangling):
\* the bytes the block was freed with are still there and the call goes on,
\* or anything else happens ("uaf").
HeapFault(h, dangling) ==
  IF ~h.ok THEN {"assert"} ELSE IF dangling THEN {"none", "uaf"} ELSE {"none"}

SetHeap(h) ==
  /\ root' = h.root
  /\ cnt' = h.cnt
  /\ p' = h.p
  /\ l' = h.l
  /\ r' = h.r
  /\ col' = h.col
  /\ key' = h.key
  /\ fault' = IF h.ok THEN "none" ELSE "assert"
  /\ rots' = h.rots
  /\ data' = h.data
  /\ strs' = h.strs
  /\ tcmp' = tcmp
  /\ UNCHANGED <<gio, opts>>
  /\ trail' = h.trail

\* A call that is no traversal hands no node to a callback, and a call on the
\* tree itself is no map_insert.
NoWalk == visit' = <<>> /\ given' = given

\* rbtree_insert(t, &k), the allocator hook returning a block, in a run of at
\* most cap inserts.
InsertUpTo(k, cap) ==
  /\ fault = "none"
  /\ cnt < cap
  /\ live # Node
  /\ LET res == rbtree_insert(Heap, k, Alloc)
     IN /\ SetHeap(res.heap)
        /\ ret' = res.ret
  /\ live' = live \cup {Alloc}
  /\ op' = "insert"
  /\ arg' = k
  /\ NoWalk

Insert(k) == InsertUpTo(k, MaxCnt)

\* rbtree_insert(t, &k), the allocator hook returning NULL: the code stores
\* NULL in the link, which held NULL already, then copies the key to
\* NULL + sizeof(struct rbnode) and hands NULL to the fixup, which reads
\* NULL->p.  Both accesses are undefined: the process is killed ("segv") or,
\* where low memory is writable, memory outside every object is overwritten
\* ("wild").  Either way the call has no defined result and the run ends.
InsertNoMem(k) ==
  /\ fault = "none"
  /\ cnt < MaxCnt
  /\ \E f \in {"segv", "wild"} : fault' = f
  /\ op' = "insert_nomem"
  /\ arg' = k
  /\ rots' = 0
  /\ NoWalk
  /\ trail' = <<>>
  /\ UNCHANGED <<root, cnt, p, l, r, col, key, live, ret, tcmp, gio, opts, data, strs>>

\* The nodes a call handed to rbnode_free, in the order it did.
Freed(t) == SelectSeq(t, LAMBDA e : e.c = 5)

\* rbtree_delete(t, n) for a node n of the tree; the blocks the call released
\* are the allocator's again.
Delete(n) ==
  /\ fault = "none"
  /\ n \in live
  /\ SetHeap(rbtree_delete(Heap, n))
  /\ live' = live \ {Freed(trail')[i].n : i \in 1 .. Len(Freed(trail'))}
  /\ op' = "delete"
  /\ arg' = n
  /\ ret' = Nil
  /\ NoWalk

\* rbtree_search(t, &k).
Search(k) ==
  /\ fault = "none"
  /\ ret' = rbtree_search(Heap, k)
  /\ op' = "search"
  /\ arg' = k
  /\ rots' = 0
  /\ NoWalk
  /\ trail' = <<>>
  /\ UNCHANGED <<root, cnt, p, l, r, col, key, live, fault, tcmp, gio, opts, data, strs>>

\* -------------------------------------------------- properties of the tree
\* The nodes that can be reached from the root through l and r links.
RECURSIVE ReachFrom(_, _)
ReachFrom(frontier, seen) ==
  IF frontier = {} THEN seen
  ELSE LET kids == {l[n] : n \in frontier} \cup {r[n] : n \in frontier}
       IN ReachFrom(kids \ ({Nil} \cup seen \cup frontier), seen \cup frontier)

Reachable == IF root = Nil THEN {} ELSE ReachFrom({root}, {})

\* Left subtree, node, right subtree; fuel stops the walk on a cyclic heap.
RECURSIVE InOrderFrom(_, _)
InOrderFrom(n, fuel) ==
  IF n = Nil \/ fuel = 0 THEN <<>>
  ELSE InOrderFrom(l[n], fuel - 1) \o <<n>> \o InOrderFrom(r[n], fuel - 1)

InOrder == InOrderFrom(root, Cardinality(Addr) + 1)

Sorted(s) == \A i \in 1 .. Len(s) - 1 : cmp(key[s[i]], key[s[i + 1]]) <= 0

\* Number of black nodes on every path from n down to a NULL link, -1 when two
\* such paths disagree.
RECURSIVE BlackHeight(_, _)
BlackHeight(n, fuel) ==
  IF n = Nil THEN 0
  ELSE IF fuel = 0 THEN -1
  ELSE LET a == BlackHeight(l[n], fuel - 1)
           b == BlackHeight(r[n], fuel - 1)
       IN IF a < 0 \/ b < 0 \/ a # b THEN -1
          ELSE a + (IF col[n] = RB_BLACK THEN 1 ELSE 0)

RootBlack == root # Nil => col[root] = RB_BLACK

NoRedRed ==
  \A n \in Reachable :
    col[n] = RB_RED =>
      /\ l[n] # Nil => col[l[n]] = RB_BLACK
      /\ r[n] # Nil => col[r[n]] = RB_BLACK

BlackBalanced == BlackHeight(root, Cardinality(Addr) + 1) >= 0

RedBlack == RootBlack /\ NoRedRed /\ BlackBalanced

\* C1: after each rbtree_insert the root is black, no red node has a red
\* child, and every path from the root to a NULL link holds the same number of
\* black nodes.
C1_InsertKeepsRedBlack == op = "insert" => RedBlack

C1_Witness ==
  /\ op = "insert"
  /\ rots = 2
  /\ Cardinality(Reachable) >= 5
  /\ \E n \in Reachable : col[n] = RB_RED

\* C2: after each rbtree_delete of a node of the tree the root, if there is
\* one, is black, no red node has a red child, and every path from the root to
\* a NULL link holds the same number of black nodes.
C2_DeleteKeepsRedBlack == op = "delete" => RedBlack

C2_Witness ==
  /\ op = "delete"
  /\ rots >= 2
  /\ Cardinality(Reachable) >= 4
  /\ \E n \in Reachable : col[n] = RB_RED

\* C3: after every operation the in-order walk of the tree yields the keys in
\* non-decreasing order of the comparator, equal keys included.
C3_InOrderSorted == Sorted(InOrder) /\ Len(InOrder) = Cardinality(live)

C3_Witness ==
  /\ op = "delete"
  /\ rots >= 1
  /\ Len(InOrder) >= 4
  /\ \E i \in 1 .. Len(InOrder) - 1 : key[InOrder[i]] = key[InOrder[i + 1]]
  /\ \E i \in 1 .. Len(InOrder) - 1 : key[InOrder[i]] < key[InOrder[i + 1]]

\* C4: after each rbtree_delete the tree's cnt field equals the number of
\* nodes reachable from the root.
C4_CountAfterDelete == op = "delete" => cnt = Cardinality(Reachable)

\* C5: rbtree_insert returns the node it created: a node of the tree, not
\* NULL, that holds the inserted key.
C5_InsertReturnsNewNode ==
  op = "insert" => ret # Nil /\ ret \in Reachable /\ key[ret] = arg

\* C6: once every node has been deleted the root is NULL and cnt is zero, and
\* the red-black and ordering properties hold after every delete on the way.
C6_DeleteAllEmpties ==
  op = "delete" =>
    /\ RedBlack
    /\ Sorted(InOrder)
    /\ live = {} => root = Nil /\ cnt = 0

\* C7: rbtree_search for a key that compares equal to the key of some node of
\* the tree returns a node whose key compares equal to it; for a key that
\* compares unequal to every key in the tree it returns NULL.
C7_SearchRoundTrip ==
  op = "search" =>
    IF \E n \in Reachable : cmp(arg, key[n]) = 0
    THEN ret \in Reachable /\ cmp(arg, key[ret]) = 0
    ELSE ret = Nil

C7_Witness ==
  /\ op = "search"
  /\ Cardinality(Reachable) >= 5
  /\ ret \in Reachable
  /\ ret # root
  /\ \E n \in Reachable : key[n] < arg
  /\ \E n \in Reachable : key[n] > arg

\* C8: when the allocator hook returns NULL, rbtree_insert returns NULL with
\* the tree untouched and without an invalid memory access.
C8_InsertNoMemFails == op = "insert_nomem" => fault = "none" /\ ret = Nil

\* The state after rbtree_insert of 10, 20, 30 in that order into the empty
\* tree: three inserts in all, no delete, blocks handed out in address order.
After_10_20_30 ==
  /\ cnt = 3
  /\ live = {1, 2, 3}
  /\ key[1] = 10
  /\ key[2] = 20
  /\ key[3] = 30

\* C9 (as stated): after inserting 10, 20, 30 the root is 20 and black, its
\* left child is 10 and black, its right child is 30 and black.
C9_Original ==
  After_10_20_30 =>
    /\ root = 2 /\ col[2] = RB_BLACK
    /\ l[2] = 1 /\ col[1] = RB_BLACK
    /\ r[2] = 3 /\ col[3] = RB_BLACK

\* C9 (amended): after inserting 10, 20, 30 the root is 20 and black, its left
\* child is 10 and red, its right child is 30 and red.
C9_RootBlackChildrenRed ==
  After_10_20_30 =>
    /\ root = 2 /\ col[2] = RB_BLACK /\ p[2] = Nil
    /\ l[2] = 1 /\ col[1] = RB_RED /\ p[1] = 2
    /\ r[2] = 3 /\ col[3] = RB_RED /\ p[3] = 2

C9_Witness == After_10_20_30 /\ op = "insert" /\ rots = 1

\* Position of node n in the in-order walk s (0 when it is not there).
PosIn(s, n) == IF \E i \in 1 .. Len(s) : s[i] = n
               THEN CHOOSE i \in 1 .. Len(s) : s[i] = n
               ELSE 0

\* C10: rbtree_insert of a key equal to a key already in the tree is not
\* rejected: one new node holding the key joins the tree, cnt grows by one, and
\* because the descent goes left on an equal comparison the new node precedes
\* every older node with an equal key in the in-order walk.
C10_DuplicateInsert ==
  [][(op' = "insert" /\ \E n \in Reachable : key[n] = arg') =>
       /\ cnt' = cnt + 1
       /\ Reachable \subseteq Reachable'
       /\ \E x \in Reachable' \ Reachable :
            /\ Reachable' = Reachable \cup {x}
            /\ key'[x] = arg'
            /\ \A n \in Reachable :
                 key[n] = arg' => PosIn(InOrder', x) < PosIn(InOrder', n)]_vars

C10_Witness ==
  /\ op = "insert"
  /\ cnt = Cardinality(live)
  /\ cnt >= 4
  /\ key[cnt] = arg
  /\ Cardinality({n \in Reachable : key[n] = arg}) >= 3
  /\ \E n \in Reachable : key[n] = arg /\ n # cnt /\ p[cnt] # n

Next ==
  \/ \E k \in Keys : Insert(k)
  \/ \E k \in Keys : InsertNoMem(k)
  \/ \E n \in Node : Delete(n)
  \/ \E k \in Keys : Search(k)

Spec == Init /\ [][Next]_vars

\* What a traversal leaves behind: the nodes handed to the callback, and the
\* first thing that went wrong, if anything did: a failed RB_ASSERT, or a
\* store past the end of the stack, which overwrites other memory.
Walked(w, name, over) ==
  /\ visit' = w.out
  /\ fault' = IF ~w.ok THEN "assert" ELSE IF over THEN "wild" ELSE "none"
  /\ op' = name
  /\ arg' = [cap |-> w.cap, peak |-> w.peak]
  /\ rots' = 0
  /\ trail' = <<>>
  /\ UNCHANGED <<root, cnt, p, l, r, col, key, live, tcmp, gio, opts, data, strs, given>>

\* A traversal that reads n->l with n == NULL: when cnt is 0 the capacity
\* computation has already failed RB_ASSERT(0) in ullog2_ceil; otherwise the
\* read of NULL->l is undefined, the process is killed ("segv") or goes on
\* with whatever low memory holds ("wild").
WalkedNull(name) ==
  /\ \E f \in IF cnt = 0 THEN {"assert"} ELSE {"segv", "wild"} : fault' = f
  /\ visit' = <<>>
  /\ op' = name
  /\ arg' = 0
  /\ rots' = 0
  /\ trail' = <<>>
  /\ UNCHANGED <<root, cnt, p, l, r, col, key, live, ret, tcmp, gio, opts, data, strs, given>>

\* rbtree_preorder(t, cb, user), cb recording the node it is called with.
Preorder ==
  /\ fault = "none"
  /\ Walked(rbtree_preorder(Heap), "preorder", rbtree_preorder(Heap).over)
  /\ ret' = 0

\* rbtree_postorder(t, cb, user).
Postorder ==
  /\ fault = "none"
  /\ IF root = Nil THEN WalkedNull("postorder")
     ELSE /\ Walked(rbtree_postorder(Heap), "postorder", rbtree_postorder(Heap).over)
          /\ ret' = 0

\* rbtree_levelorder(t, cb, user).  The function is declared int and has no
\* return statement, so the caller reads whatever the return register holds.
Levelorder ==
  /\ fault = "none"
  /\ IF root = Nil THEN WalkedNull("levelorder")
     ELSE /\ Walked(rbtree_levelorder(Heap), "levelorder", FALSE)
          /\ \E v \in {0, 1} : ret' = v

\* The tree with its three traversals.
NextTrav ==
  \/ \E k \in Keys : Insert(k)
  \/ \E n \in Node : Delete(n)
  \/ Preorder
  \/ Postorder
  \/ Levelorder

SpecTrav == Init /\ [][NextTrav]_vars

\* The tree under inserts and deletes alone.
NextTree ==
  \/ \E k \in Keys : Insert(k)
  \/ \E n \in Node : Delete(n)

SpecTree == Init /\ [][NextTree]_vars

\* rbtree_insert(t, &k) followed by the caller's write of a payload, one per
\* address, to the node the call returned.
InsertPayload(k) ==
  /\ fault = "none"
  /\ cnt < MaxCnt
  /\ live # Node
  /\ LET res == rbtree_insert(Heap, k, Alloc)
     IN /\ SetHeap(rbnode_set_data(res.heap, res.ret, DataBase + res.ret))
        /\ ret' = res.ret
  /\ live' = live \cup {Alloc}
  /\ op' = "insert"
  /\ arg' = k
  /\ NoWalk

\* Inserts with payloads, and deletes.
NextPayload ==
  \/ \E k \in Keys : InsertPayload(k)
  \/ \E n \in Node : Delete(n)

SpecPayload == Init /\ [][NextPayload]_vars

\* A walk over a non-empty tree with rbtree_min and rbtree_successor (name
\* "forward") or rbtree_max and rbtree_predecessor ("backward"); ret is the
\* NULL that ended it.
Navigated(name, nodes) ==
  /\ fault = "none"
  /\ root # Nil
  /\ visit' = nodes
  /\ op' = name
  /\ arg' = 0
  /\ ret' = Nil
  /\ rots' = 0
  /\ trail' = <<>>
  /\ UNCHANGED <<root, cnt, p, l, r, col, key, live, fault, tcmp, gio, opts, data, strs,
                 given>>

Forward == Navigated("forward", ForwardFrom(Heap, rbtree_min(Heap, root)))

Backward == Navigated("backward", BackwardFrom(Heap, rbtree_max(Heap, root)))

\* Inserts and deletes, and walks over the trees they produce.
NextNav ==
  \/ NextTree
  \/ Forward
  \/ Backward

SpecNav == Init /\ [][NextNav]_vars

\* rbtree_insert, until every address is in use.
Grow(k) == InsertUpTo(k, MaxNodes)

\* rbtree_delete of one node of a tree that holds every address.
Shrink(n) == live = Node /\ Delete(n)

\* Trees grown to MaxNodes nodes, and what one delete leaves of them.
NextGrow ==
  \/ \E k \in Keys : Grow(k)
  \/ \E n \in Node : Shrink(n)

SpecGrow == Init /\ [][NextGrow]_vars

\* _rbtree_lrot(t, n) on a node n of the tree that has a right child.  The
\* rotated tree is looked at and not used further.
RotateLeft(n) ==
  /\ fault = "none"
  /\ op = "insert"
  /\ n \in live
  /\ r[n] # Nil
  /\ SetHeap(_rbtree_lrot(Heap, n))
  /\ op' = "lrot"
  /\ arg' = n
  /\ NoWalk
  /\ UNCHANGED <<live, ret>>

\* _rbtree_rrot(t, n) on a node n of the tree that has a left child.
RotateRight(n) ==
  /\ fault = "none"
  /\ op = "insert"
  /\ n \in live
  /\ l[n] # Nil
  /\ SetHeap(_rbtree_rrot(Heap, n))
  /\ op' = "rrot"
  /\ arg' = n
  /\ NoWalk
  /\ UNCHANGED <<live, ret>>

\* Trees built by inserts, and one rotation applied to any node of them.
NextRot ==
  \/ op \notin {"lrot", "rrot"} /\ \E k \in Keys : Insert(k)
  \/ \E n \in Node : RotateLeft(n)
  \/ \E n \in Node : RotateRight(n)

SpecRot == Init /\ [][NextRot]_vars

\* The tree under the comparator cmp_tens, driven with KeysPre.
InitPre == InitWith("tens")

NextPre ==
  \/ \E k \in KeysPre : Insert(k)
  \/ \E n \in Node : Delete(n)
  \/ \E k \in KeysPre : Search(k)

SpecPre == InitPre /\ [][NextPre]_vars

\* map_init(map): an empty tree with _map_key_cmp as its comparator.
InitMap == InitWith("map")

\* The block realloc returns for a string copy: any block not in use; the
\* lowest one stands for all of them.
StrAlloc ==
  CHOOSE b \in StrBlk : ~strs[b].live /\ \A c \in StrBlk : ~strs[c].live => b <= c

\* The payload pointer of the next map_insert: one the map has not seen.
NextData == DataBase + Cardinality(given) + 1

\* map_insert(map, s, NextData), both allocations succeeding.
MapInsert(s) ==
  /\ fault = "none"
  /\ Cardinality(given) < MaxMapCnt
  /\ LET res == map_insert(Heap, s, NextData, StrAlloc, Alloc)
     IN /\ root' = res.heap.root
        /\ cnt' = res.heap.cnt
        /\ p' = res.heap.p
        /\ l' = res.heap.l
        /\ r' = res.heap.r
        /\ col' = res.heap.col
        /\ key' = res.heap.key
        /\ rots' = res.heap.rots
        /\ trail' = res.heap.trail
        /\ data' = res.heap.data
        /\ strs' = res.heap.strs
        /\ ret' = res.ret
        /\ fault' \in HeapFault(res.heap,
                    InsertDangling(Heap, _map_key_init(Heap, s, TRUE, Nil).mkey, root))
        /\ given' = given \cup {[s |-> s, d |-> NextData, rc |-> res.ret]}
  /\ live' = live \cup {Alloc}
  /\ op' = "map_insert"
  /\ arg' = s
  /\ visit' = <<>>
  /\ tcmp' = tcmp
  /\ UNCHANGED <<gio, opts>>

\* map_insert(map, s, NextData), realloc returning NULL for the copy of a
\* string longer than the hash: _map_key_init returns -1 and so does map_insert.
MapInsertNoMemKey(s) ==
  /\ fault = "none"
  /\ Cardinality(given) < MaxMapCnt
  /\ Len(s) > HashLen
  /\ LET res == map_insert(Heap, s, NextData, Nil, Alloc)
     IN /\ root' = res.heap.root
        /\ cnt' = res.heap.cnt
        /\ p' = res.heap.p
        /\ l' = res.heap.l
        /\ r' = res.heap.r
        /\ col' = res.heap.col
        /\ key' = res.heap.key
        /\ data' = res.heap.data
        /\ strs' = res.heap.strs
        /\ ret' = res.ret
        /\ given' = given \cup {[s |-> s, d |-> NextData, rc |-> res.ret]}
  /\ op' = "map_insert_nomem_key"
  /\ arg' = s
  /\ rots' = 0
  /\ visit' = <<>>
  /\ trail' = <<>>
  /\ UNCHANGED <<live, fault, tcmp, gio, opts>>

\* map_insert(map, s, NextData), the allocator hook of the tree returning NULL:
\* the key has been built (and copied when it is long), then rbtree_insert
\* writes through the NULL node as in InsertNoMem and the call never returns.
MapInsertNoMemNode(s) ==
  /\ fault = "none"
  /\ Cardinality(given) < MaxMapCnt
  /\ strs' = _map_key_init(Heap, s, FALSE, StrAlloc).heap.strs
  /\ \E f \in {"segv", "wild"} : fault' = f
  /\ op' = "map_insert_nomem_node"
  /\ arg' = s
  /\ rots' = 0
  /\ visit' = <<>>
  /\ trail' = <<>>
  /\ UNCHANGED <<root, cnt, p, l, r, col, key, live, ret, tcmp, gio, opts, data, given>>

\* map_search(map, s).
MapSearch(s) ==
  /\ fault = "none"
  /\ LET res == map_search(Heap, s, StrAlloc)
     IN /\ ret' = res.ret
        /\ strs' = res.heap.strs
        /\ data' = res.heap.data
        /\ fault' \in HeapFault(res.heap,
                    SearchDangling(Heap, _map_key_init(Heap, s, TRUE, Nil).mkey, root))
  /\ op' = "map_search"
  /\ arg' = s
  /\ rots' = 0
  /\ visit' = <<>>
  /\ trail' = <<>>
  /\ UNCHANGED <<root, cnt, p, l, r, col, key, live, tcmp, gio, opts, given>>

\* _map_key_cmp on the keys _map_key_init builds for the strings s and t.
MapKeyCmp(s, t) ==
  /\ fault = "none"
  /\ ret' = _map_key_cmp(Heap, _map_key_init(Heap, s, TRUE, Nil).mkey,
                         _map_key_init(Heap, t, TRUE, Nil).mkey)
  /\ op' = "map_key_cmp"
  /\ arg' = <<s, t>>
  /\ rots' = 0
  /\ visit' = <<>>
  /\ trail' = <<>>
  /\ UNCHANGED <<root, cnt, p, l, r, col, key, live, fault, tcmp, gio, opts, data, strs, given>>

NextMap ==
  \/ \E s \in MapStrings : MapInsert(s)
  \/ \E s \in MapStrings : MapInsertNoMemKey(s)
  \/ \E s \in MapStrings : MapInsertNoMemNode(s)
  \/ \E s \in MapStrings : MapSearch(s)
  \/ \E s, t \in MapStrings : MapKeyCmp(s, t)

SpecMap == InitMap /\ [][NextMap]_vars

\* The tree on its own and the map, each from its own initial state.
InitAll == Init \/ InitMap

NextAll ==
  \/ tcmp = "int" /\ Next
  \/ tcmp = "map" /\ NextMap

SpecAll == InitAll /\ [][NextAll]_vars
\* C11: under a comparator that is a total preorder (cmp_tens), whenever the
\* tree holds a node whose key compares equal to the query key, in either
\* argument order, rbtree_search returns a node of the tree whose key compares
\* equal to the query key, in either argument order.
C11_SearchFindsEqual ==
  (op = "search" /\ \E n \in Reachable :
                      cmp_tens(key[n], arg) = 0 \/ cmp_tens(arg, key[n]) = 0)
    => /\ ret \in Reachable
       /\ cmp_tens(key[ret], arg) = 0
       /\ cmp_tens(arg, key[ret]) = 0

\* A search that was answered with a node whose key is not the query key, in a
\* tree that has been through a delete.
C11_Witness ==
  /\ op = "search"
  /\ ret \in Reachable
  /\ key[ret] # arg
  /\ cmp_tens(key[ret], arg) = 0
  /\ Cardinality(live) < cnt

\* The nodes of s are the nodes of the tree, each once.
EachOnce(s) ==
  /\ Len(s) = Cardinality(Reachable)
  /\ {s[i] : i \in 1 .. Len(s)} = Reachable

\* The nodes of the subtree below n, n included.
Subtree(n) == IF n = Nil THEN {} ELSE ReachFrom({n}, {})

\* C12: rbtree_preorder on a non-empty tree reached by inserts and deletes
\* calls the callback exactly once for every node of the tree, and for a node
\* before it calls it for either child of the node.
C12_PreorderComplete ==
  (op = "preorder" /\ root # Nil)
    => /\ fault = "none"
       /\ EachOnce(visit)
       /\ \A n \in Reachable : \A c \in {l[n], r[n]} \ {Nil} :
            PosIn(visit, n) < PosIn(visit, c)

\* A pre-order walk of a tree of five or more nodes, one of them with two
\* children, after a delete.
C12_Witness ==
  /\ op = "preorder"
  /\ Len(visit) >= 5
  /\ \E n \in Reachable : l[n] # Nil /\ r[n] # Nil /\ n # root
  /\ Cardinality(live) < cnt

\* C13: rbtree_postorder on a non-empty tree reached by inserts and deletes
\* calls the callback exactly once for every node of the tree, and for a node
\* only after it has called it for every node of the node's two subtrees.
C13_PostorderComplete ==
  (op = "postorder" /\ root # Nil)
    => /\ fault = "none"
       /\ EachOnce(visit)
       /\ \A n \in Reachable : \A c \in Subtree(l[n]) \cup Subtree(r[n]) :
            PosIn(visit, c) < PosIn(visit, n)

\* A post-order walk of a tree of five or more nodes, one of them with two
\* children, after a delete.
C13_Witness ==
  /\ op = "postorder"
  /\ Len(visit) >= 5
  /\ \E n \in Reachable : l[n] # Nil /\ r[n] # Nil /\ n # root
  /\ Cardinality(live) < cnt

\* Depth of node n: the number of links from the root down to n.
RECURSIVE Depth(_)
Depth(n) == IF n = root \/ p[n] = Nil THEN 0 ELSE 1 + Depth(p[n])

\* C14: rbtree_levelorder on a non-empty tree calls the callback exactly once
\* for every node of the tree, nodes of smaller depth before nodes of greater
\* depth.
C14_LevelorderComplete ==
  (op = "levelorder" /\ root # Nil /\ fault = "none")
    => /\ EachOnce(visit)
       /\ \A m, n \in Reachable :
            Depth(m) < Depth(n) => PosIn(visit, m) < PosIn(visit, n)

\* Every map_insert call so far had a string of its own and returned 0.
AllInsertedOnce ==
  /\ \A e \in given : e.rc = 0
  /\ \A e, f \in given : e.s = f.s => e = f

\* C15: after map_insert calls with pairwise distinct strings, shorter than,
\* exactly as long as and longer than the hash, in any order, map_search of an
\* inserted string returns the payload pointer that was passed with it.
C15_MapRoundTrip ==
  (op = "map_search" /\ fault = "none" /\ AllInsertedOnce)
    => \A e \in given : e.s = arg => ret = e.d

\* C16: map_search of a string that no map_insert call was given returns NULL,
\* whatever the map holds.
C16_AbsentNotFound ==
  (op = "map_search" /\ fault = "none" /\ \A e \in given : e.s # arg)
    => ret = 0

\* Byte i of the zero-padded string s.
ByteAt(s, i) == IF i <= Len(s) THEN s[i] ELSE 0

\* C17: _map_key_cmp returns 0 for the keys of two strings only if the first
\* eight bytes of the strings are equal and, when either string is longer than
\* eight bytes, the strings are equal.
C17_EqualOnlyIfSame ==
  (op = "map_key_cmp" /\ ret = 0)
    => /\ \A i \in 1 .. HashLen : ByteAt(arg[1], i) = ByteAt(arg[2], i)
       /\ (Len(arg[1]) > HashLen \/ Len(arg[2]) > HashLen) => arg[1] = arg[2]

\* C18: when the map has been given two different strings longer than eight
\* bytes that agree on their first eight bytes, each once and with success,
\* map_search of either returns the payload given with that string.
C18_LongKeysDoNotCollide ==
  (/\ op = "map_search"
   /\ fault = "none"
   /\ AllInsertedOnce
   /\ Len(arg) > HashLen
   /\ \E e, f \in given :
        /\ e.s = arg
        /\ f.s # arg
        /\ Len(f.s) > HashLen
        /\ \A i \in 1 .. HashLen : f.s[i] = arg[i])
    => \A e \in given : e.s = arg => ret = e.d

\* The blocks that hold string copies.
LiveStrs == {b \in StrBlk : strs[b].live}

\* C19: a map_insert call in which an allocation fails, that of the string
\* copy or that of the tree node, returns -1, leaves no string copy behind and
\* leaves the tree as it was: the same nodes, the same cnt.
C19_InsertNoMemClean ==
  [][op' \in {"map_insert_nomem_key", "map_insert_nomem_node"}
       => /\ fault' = "none"
          /\ ret' = -1
          /\ LiveStrs' = LiveStrs
          /\ UNCHANGED <<root, cnt, p, l, r, col, key, data, live>>]_vars

\* C20: rbtree_search and map_search change nothing: the root, every node's
\* links, colour, key and payload and cnt are as before, and no block is
\* allocated, also when map_search is given a string longer than eight bytes.
C20_SearchNonMutating ==
  [][op' \in {"search", "map_search"}
       => UNCHANGED <<root, cnt, p, l, r, col, key, data, live, strs>>]_vars

\* A map_search with a string longer than eight bytes that found the string
\* in a map of three nodes.
C20_Witness ==
  /\ op = "map_search"
  /\ Len(arg) > HashLen
  /\ \E e \in given : e.s = arg /\ e.d = ret
  /\ Cardinality(Reachable) = 3

LinksConsistent ==
  /\ root # Nil => p[root] = Nil
  /\ Len(InOrder) = Cardinality(Reachable)
  /\ \A n \in Reachable :
       /\ l[n] # n
       /\ r[n] # n
       /\ l[n] # Nil => p[l[n]] = n
       /\ r[n] # Nil => p[r[n]] = n
       /\ n # root => /\ p[n] \in Reachable
                      /\ l[p[n]] = n \/ r[p[n]] = n
                      /\ p[n] # l[n]
                      /\ p[n] # r[n]

\* After a rotation at n that lifted its child c: c hangs where n hung, n is
\* c's child, and the subtree inner that changed sides hangs under n.
Lifted(n, c, inner) ==
  /\ p'[c] = p[n]
  /\ IF p[n] = Nil THEN root' = c
     ELSE /\ root' = root
          /\ l[p[n]] = n => l'[p[n]] = c
          /\ r[p[n]] = n => r'[p[n]] = c
  /\ p'[n] = c
  /\ inner # Nil => p'[inner] = n

\* C22: a left or right rotation at a node whose child on the other side is
\* there keeps the in-order sequence, the set of nodes and every colour; the
\* child takes the node's place under the node's former parent or at the
\* root, the node becomes its child on the side of the rotation, the inner
\* subtree hangs under the node, and all links are consistent.
C22_RotationKeepsOrder ==
  [][op' \in {"lrot", "rrot"} =>
       /\ fault' = "none"
       /\ InOrder' = InOrder
       /\ Reachable' = Reachable
       /\ col' = col
       /\ LinksConsistent'
       /\ op' = "lrot" =>
            /\ Lifted(arg', r[arg'], l[r[arg']])
            /\ l'[r[arg']] = arg'
            /\ r'[arg'] = l[r[arg']]
       /\ op' = "rrot" =>
            /\ Lifted(arg', l[arg'], r[l[arg']])
            /\ r'[l[arg']] = arg'
            /\ l'[arg'] = r[l[arg']]]_vars

\* A left rotation was applied below the root, and the node it pushed down
\* has taken over an inner subtree.
C22_Witness ==
  /\ op = "lrot"
  /\ arg # root
  /\ p[p[arg]] # Nil
  /\ r[arg] # Nil

\* C23: after every rbtree_insert and rbtree_delete no node is its own child,
\* every node but the root is the left or right child of the node its parent
\* pointer names and that parent is not one of its children, the root has no
\* parent, and no node is reached from the root by two paths.
C23_LinksConsistent == op \in {"insert", "delete"} => LinksConsistent

\* A delete that needed two or more rotations and left four or more nodes.
C23_Witness ==
  /\ op = "delete"
  /\ rots >= 2
  /\ Cardinality(Reachable) >= 4

\* C24: no RB_ASSERT of rbtree_insert, rbtree_delete, their fixups, the
\* rotations and rbtree_transplant fails on a tree reached by inserts and
\* deletes: every such call ends without a failed assertion.
C24_NoAssertFails == op \in {"insert", "delete"} => fault = "none"

\* A delete whose fixup went through case 1, case 3 and case 4: three
\* rotations, with the assertions of each case passed.
C24_Witness ==
  /\ op = "delete"
  /\ rots = 3
  /\ fault = "none"

\* The tests of the loop condition in the last fixup loop.
Tests == SelectSeq(trail, LAMBDA e : e.c = 0)

\* The iterations of the last fixup loop: every test of the loop condition
\* but the last.
Iterations == 1 .. Len(Tests) - 1

\* Every iteration but the last one moved the current node up by step levels.
ClimbsBy(step) ==
  \A i \in Iterations : i + 1 \in Iterations => Tests[i + 1].d = Tests[i].d - step

\* In the delete fixup, case 2 hands the loop the parent of its current node
\* and case 4 hands it the root.
DeleteCasesClimb ==
  \A i \in 1 .. Len(trail) :
    /\ trail[i].c = 2 =>
         /\ i < Len(trail)
         /\ trail[i + 1].c = 0
         /\ trail[i + 1].d = trail[i].d - 1
    /\ trail[i].c = 4 => i < Len(trail) /\ trail[i + 1].n = root

\* C25: both fixup loops end on every tree reached by inserts and deletes.
\* An iteration of the insert fixup is the last or moves the current node two
\* levels up, an iteration of the delete fixup goes to the root (case 4) or
\* one level up (case 2), so neither loop makes more iterations than the
\* tree is deep; the insert fixup leaves the root black and the delete fixup
\* leaves the node it stopped at black.
C25_FixupsTerminate ==
  /\ op = "insert" =>
       /\ Len(Tests) >= 1
       /\ ClimbsBy(2)
       /\ 2 * (Len(Tests) - 1) <= Tests[1].d
       /\ col[root] = RB_BLACK
  /\ (op = "delete" /\ Len(Tests) >= 1) =>
       /\ DeleteCasesClimb
       /\ ClimbsBy(1)
       /\ Len(Tests) - 1 <= Tests[1].d
       /\ col[Tests[Len(Tests)].n] = RB_BLACK

\* An insert whose fixup made two iterations, from depth 4 and from depth 2.
C25_Witness ==
  /\ op = "insert"
  /\ Len(Tests) = 3
  /\ Tests[1].d = 4
  /\ Tests[2].d = 2
  /\ col[root] = RB_BLACK

\* C26: an insert makes at most 2 rotations and a delete at most 3, on every
\* tree reached by inserts and deletes; in the delete fixup nothing but the
\* test that ends the loop comes after case 4 (the release of the node is
\* past the loop), and case 4 comes straight after case 3.
C26_RotationBudget ==
  /\ op = "insert" => rots <= 2
  /\ op = "delete" =>
       /\ rots <= 3
       /\ \A i \in 1 .. Len(trail) :
            /\ trail[i].c = 4 =>
                 /\ i < Len(trail)
                 /\ trail[i + 1].c = 0
                 /\ \A j \in i + 2 .. Len(trail) : trail[j].c = 5
            /\ trail[i].c = 3 => i < Len(trail) /\ trail[i + 1].c = 4

\* A delete that went through cases 1, 3 and 4 and made three rotations.
C26_Witness ==
  /\ op = "delete"
  /\ rots = 3
  /\ \E i \in 1 .. Len(trail) : trail[i].c = 1
  /\ \E i \in 1 .. Len(trail) : trail[i].c = 3

\* The sequence s without its entries equal to n.
Without(s, n) == SelectSeq(s, LAMBDA m : m # n)

\* C27: rbtree_delete(t, n) removes node n and nothing else: afterwards n
\* cannot be reached from the root, the nodes that can be are the ones that
\* could before, less n, each with the key and the payload it had, and their
\* in-order sequence is the previous one without n.
C27_DeleteRemovesExactlyN ==
  [][op' = "delete" =>
       /\ fault' = "none"
       /\ arg' \in Reachable
       /\ arg' \notin Reachable'
       /\ Reachable' = Reachable \ {arg'}
       /\ \A m \in Reachable' : key'[m] = key[m] /\ data'[m] = data[m]
       /\ InOrder' = Without(InOrder, arg')]_vars

\* A delete that rotated and left at least four nodes, each still holding the
\* payload it was given.
C27_Witness ==
  /\ op = "delete"
  /\ rots >= 1
  /\ arg \notin Reachable
  /\ Cardinality(Reachable) >= 4
  /\ \A m \in Reachable : data[m] = DataBase + m

\* C28: after rbtree_delete returns, neither the root nor the left, right or
\* parent pointer of any node refers to the sentinel of the call.
C28_SentinelDetached ==
  op = "delete" =>
    /\ fault = "none"
    /\ root # Dummy
    /\ \A n \in Node : p[n] # Dummy /\ l[n] # Dummy /\ r[n] # Dummy

\* A delete that put the sentinel in the tree, ran the fixup from it with a
\* rotation, and left nodes behind.
C28_Witness ==
  /\ op = "delete"
  /\ Len(trail) >= 2
  /\ trail[1].n = Dummy
  /\ rots >= 1
  /\ root # Nil

\* Every link of the tree is NULL or an allocated block.
LinksLive ==
  /\ root \in live \cup {Nil}
  /\ \A n \in live : {p[n], l[n], r[n]} \subseteq live \cup {Nil}

\* C29: through inserts and deletes, the blocks that came from the allocator
\* hook and have not gone back to it are the nodes reachable from the root; an
\* insert releases nothing; a delete releases the deleted node, once, and
\* nothing else, the node being an allocated block when it is released; and no
\* link of the tree refers to a released block.
C29_NodeMemorySafe ==
  [][/\ live' = Reachable'
     /\ LinksLive'
     /\ op' = "insert" => Freed(trail') = <<>> /\ live \subseteq live'
     /\ op' = "delete" =>
          /\ Len(Freed(trail')) = 1
          /\ Freed(trail')[1].n = arg'
          /\ arg' \in live
          /\ live' = live \ {arg'}]_vars

\* A delete of a node whose address had been released and allocated again
\* before, from a tree that keeps at least three nodes.
C29_Witness ==
  /\ op = "delete"
  /\ Len(Freed(trail)) = 1
  /\ arg \notin live
  /\ Cardinality(live) >= 3
  /\ cnt >= Cardinality(live) + 3
  /\ arg <= Cardinality(live)

\* The sequence s back to front.
Reverse(s) == [i \in 1 .. Len(s) |-> s[Len(s) + 1 - i]]

\* rbtree_predecessor undoes rbtree_successor, and there is nothing before
\* the minimum.
PredecessorInverts ==
  /\ \A n \in Reachable :
       rbtree_successor(Heap, n) # Nil
         => rbtree_predecessor(Heap, rbtree_successor(Heap, n)) = n
  /\ rbtree_predecessor(Heap, rbtree_min(Heap, root)) = Nil

\* C30: on a non-empty tree reached by inserts and deletes, the walk from
\* rbtree_min(root) by rbtree_successor sees every node once, in in-order and
\* so in non-decreasing key order, the last one being rbtree_max(root), whose
\* successor is NULL; the walk from rbtree_max(root) by rbtree_predecessor
\* sees the same nodes back to front, rbtree_predecessor undoes
\* rbtree_successor, and the minimum has no predecessor.
C30_InOrderNavigation ==
  /\ op = "forward" =>
       /\ visit = InOrder
       /\ EachOnce(visit)
       /\ Sorted(visit)
       /\ visit[Len(visit)] = rbtree_max(Heap, root)
       /\ rbtree_successor(Heap, rbtree_max(Heap, root)) = Nil
       /\ PredecessorInverts
  /\ op = "backward" =>
       /\ visit = Reverse(InOrder)
       /\ PredecessorInverts

\* A forward walk over five nodes or more, two neighbours of which hold the
\* same key, on a tree that has been through a delete.
C30_Witness ==
  /\ op = "forward"
  /\ Len(visit) >= 5
  /\ \E i \in 1 .. Len(visit) - 1 : key[visit[i]] = key[visit[i + 1]]
  /\ cnt > Cardinality(live)

\* C31: after rbtree_delete of a node with key k, rbtree_search(k) returns
\* NULL when no node left in the tree has a key equal to k, and rbtree_search
\* for the key of any node left in the tree returns a node of the tree with
\* that key.
C31_SearchAfterDelete ==
  [][op' = "delete" =>
       /\ fault' = "none"
       /\ (\A m \in live' : cmp(key[arg'], key'[m]) # 0)
            => rbtree_search(Heap', key[arg']) = Nil
       /\ \A m \in live' :
            /\ rbtree_search(Heap', key'[m]) \in live'
            /\ cmp(key'[m], key'[rbtree_search(Heap', key'[m])]) = 0]_vars

\* A delete with rotations that took the last node with its key out of a tree
\* of four nodes or more: one of the three keys is no longer found.
C31_Witness ==
  /\ op = "delete"
  /\ rots >= 1
  /\ Cardinality(live) >= 4
  /\ \E k \in Keys : rbtree_search(Heap, k) = Nil
  /\ \E k \in Keys : rbtree_search(Heap, k) \notin {Nil, root}

\* C32: in a pre-order, post-order or level-order traversal of a non-empty
\* tree the stack or queue never holds more nodes than its capacity, and the
\* capacity is the one computed in the call from 2 * ceil(log2(cnt)).
C32_CapacityRespected ==
  (op \in {"preorder", "postorder", "levelorder"} /\ root # Nil) =>
    /\ fault = "none"
    /\ arg.peak <= arg.cap
    /\ arg.cap = _rbtree_max_possible_leafs(Heap)

\* C33: on an empty tree (root NULL, cnt 0) rbtree_preorder, rbtree_postorder
\* and rbtree_levelorder return normally: no callback call, no read through a
\* NULL node, no failed assertion.
C33_EmptyTraversalSafe ==
  (op \in {"preorder", "postorder", "levelorder"} /\ root = Nil /\ cnt = 0) =>
    /\ fault = "none"
    /\ visit = <<>>

\* The first of the HashLen leading bytes in which the zero-padded strings s
\* and t differ, 0 when there is none.
FirstPrefixDiff(s, t) ==
  IF \E i \in 1 .. HashLen : ByteAt(s, i) # ByteAt(t, i)
  THEN CHOOSE i \in 1 .. HashLen :
         /\ ByteAt(s, i) # ByteAt(t, i)
         /\ \A j \in 1 .. i - 1 : ByteAt(s, j) = ByteAt(t, j)
  ELSE 0

\* C34: _map_key_cmp on the keys of two strings compares the 8-byte prefixes
\* byte by byte first; with equal prefixes it returns the comparison of the
\* full strings when both keys carry a string pointer (both strings are
\* longer than 8 bytes), and 0 when at most one of them does.
C34_ComparatorCases ==
  op = "map_key_cmp" =>
    IF FirstPrefixDiff(arg[1], arg[2]) # 0
    THEN /\ ret # 0
         /\ ret < 0 <=> ByteAt(arg[1], FirstPrefixDiff(arg[1], arg[2]))
                          < ByteAt(arg[2], FirstPrefixDiff(arg[1], arg[2]))
    ELSE IF Len(arg[1]) > HashLen /\ Len(arg[2]) > HashLen
    THEN ret = strcmp(arg[1], arg[2])
    ELSE ret = 0

\* Two different long strings with the same prefix, told apart by the full
\* comparison, in a map that holds a node.
C34_Witness ==
  /\ op = "map_key_cmp"
  /\ arg = <<Str9y, Str9x>>
  /\ ret > 0
  /\ root # Nil

\* _map_key_cmp on the keys _map_key_init builds for the caller's strings s
\* and t.
KeyCmp(s, t) ==
  _map_key_cmp(Heap, _map_key_init(Heap, s, TRUE, Nil).mkey,
               _map_key_init(Heap, t, TRUE, Nil).mkey)

\* C35: _map_key_cmp is a total preorder on the keys of arbitrary strings:
\* cmp(b, a) has the opposite sign of cmp(a, b), and it is transitive, in
\* particular cmp(a, b) = 0 and cmp(b, c) = 0 imply cmp(a, c) = 0.
C35_ComparatorPreorder ==
  op = "map_key_cmp" =>
    /\ cmp(ret, 0) = - cmp(KeyCmp(arg[2], arg[1]), 0)
    /\ \A c \in MapStrings :
         /\ (ret <= 0 /\ KeyCmp(arg[2], c) <= 0) => KeyCmp(arg[1], c) <= 0
         /\ (ret = 0 /\ KeyCmp(arg[2], c) = 0) => KeyCmp(arg[1], c) = 0

\* C36: a map_insert call in which no allocation fails returns 0, and the node
\* created for the key holds the payload pointer the caller passed.
C36_InsertStoresPayload ==
  [][(op' = "map_insert" /\ fault' = "none") =>
       /\ ret' = 0
       /\ \A n \in live' \ live : data'[n] = NextData]_vars

\* C37: after map_insert calls, failed ones included, the string pointer of
\* every node of the map's tree that has one points at a block that is still
\* allocated, and every allocated string block is pointed at by exactly one
\* node of the tree.
C37_KeyOwnership ==
  (tcmp = "map" /\ fault = "none") =>
    /\ \A n \in Reachable : key[n].key # 0 => key[n].key \in LiveStrs
    /\ \A b \in LiveStrs : Cardinality({n \in Reachable : key[n].key = b}) = 1

\* The nodes of the tree whose key was built from the string s.
NodesOf(s) ==
  {n \in Reachable :
     IF Len(s) > HashLen
     THEN key[n].key # 0 /\ strs[key[n].key].s = s
     ELSE key[n].key = 0 /\ key[n].hash = Padded(s, HashLen)}

\* C38: map_insert of a string that a node of the map holds already adds a
\* node and replaces nothing: cnt and the number of nodes grow by one and
\* every older node keeps its payload; a later map_search of the string
\* returns a payload that was inserted under a key comparing equal to it.
C38_DuplicateKeyAdds ==
  [][/\ (op' = "map_insert" /\ fault' = "none" /\ NodesOf(arg') # {})
          => /\ cnt' = cnt + 1
             /\ Cardinality(Reachable') = Cardinality(Reachable) + 1
             /\ \A n \in Reachable : data'[n] = data[n]
     /\ (/\ op' = "map_search"
         /\ fault' = "none"
         /\ Cardinality(NodesOf(arg')) >= 2)
          => ret' \in {e.d : e \in {f \in given : KeyCmp(f.s, arg') = 0}}]_vars

\* ------------------------------------------------------ in-memory gio stream
\* The width of size_t, ssize_t and off_t, scaled down: size_t holds
\* 0 .. SIZE_MAX and off_t OFF_MIN .. OFF_MAX.
OffBits == 4
SIZE_MAX == 2 ^ OffBits - 1
OFF_MAX == 2 ^ (OffBits - 1) - 1
OFF_MIN == -(2 ^ (OffBits - 1))

\* The largest buffer a stream is initialised with; an object is never larger
\* than OFF_MAX bytes.
MaxSz == 5

\* The bytes a caller writes; a fresh buffer holds zeroes.
GioBytes == {1}

\* Conversion of an integer to size_t (modulo 2^OffBits), and of a size_t to
\* the signed type of the same width.
ToSize(x) == x % (SIZE_MAX + 1)
ToOff(x) == IF ToSize(x) > OFF_MAX THEN ToSize(x) - (SIZE_MAX + 1) ELSE ToSize(x)

GIO_MIN(A, B) == IF A > B THEN B ELSE A

\* The tree, the map and their ghosts, which no stream call touches.
tree == <<root, cnt, p, l, r, col, key, live, rots, tcmp, data, visit, strs,
          given, trail>>

\* gio_mem_init over a buffer of sz bytes: the cursor starts at 0.
gio_mem_init(buf, sz) == [buf |-> buf, sz |-> sz, off |-> 0]

\* memcpy(dst + at, src, n) on the stream's buffer.
MemcpyIn(buf, at, src, n) ==
  [i \in 1 .. Len(buf) |-> IF i > at /\ i <= at + n THEN src[i - at] ELSE buf[i]]

\* gio_write, case GIO_MEM: sz is clamped to what is left behind the cursor,
\* that many bytes are copied in and the cursor advances over them.
gio_write(g, src, sz) ==
  LET n == GIO_MIN(sz, ToSize(g.sz - g.off))
  IN [gio |-> [g EXCEPT !.buf = MemcpyIn(g.buf, g.off, src, n),
                        !.off = ToSize(g.off + n)],
      ok |-> g.sz >= g.off,
      out |-> <<>>,
      ret |-> ToOff(n)]

\* gio_read, case GIO_MEM: the same clamp; out is what memcpy put in the
\* caller's buffer.
gio_read(g, sz) ==
  LET n == GIO_MIN(sz, ToSize(g.sz - g.off))
  IN [gio |-> [g EXCEPT !.off = ToSize(g.off + n)],
      ok |-> g.sz >= g.off,
      out |-> SubSeq(g.buf, g.off + 1, g.off + n),
      ret |-> ToOff(n)]

SEEK_SET == 0
SEEK_CUR == 1
SEEK_END == 2
Whences == {SEEK_SET, SEEK_CUR, SEEK_END, 3}

\* Whether gio_seek evaluates -off: in the negative branch of SEEK_CUR and,
\* past the short-circuit of off > 0, in SEEK_END.
Negates(off, whence) ==
  \/ whence = SEEK_CUR /\ off < 0
  \/ whence = SEEK_END /\ off <= 0

\* -off on off_t.  Negating OFF_MIN overflows the signed type, which is
\* undefined: the build either wraps (the result is OFF_MIN again) or traps.
Negations(off) ==
  IF off = OFF_MIN
  THEN {[v |-> OFF_MIN, trap |-> FALSE], [v |-> 0, trap |-> TRUE]}
  ELSE {[v |-> -off, trap |-> FALSE]}

\* gio_seek, case GIO_MEM, with neg the value -off evaluated to.  off_t and
\* size_t have the same width, so a comparison of the two is made in size_t.
\* moved is FALSE on the early returns of -1.
gio_seek(g, off, whence, neg) ==
  LET bad == CASE whence = SEEK_SET -> off < 0 \/ ToSize(off) > g.sz
               [] whence = SEEK_CUR ->
                    IF off >= 0 THEN ToSize(off) > ToSize(g.sz - g.off)
                                ELSE ToSize(neg) > g.off
               [] whence = SEEK_END -> off > 0 \/ ToSize(neg) > g.sz
               [] OTHER -> TRUE
      to == CASE whence = SEEK_SET -> ToSize(off)
              [] whence = SEEK_CUR -> ToSize(g.off + off)
              [] whence = SEEK_END -> ToSize(g.sz + off)
              [] OTHER -> g.off
  IN IF bad THEN [gio |-> g, ret |-> -1]
            ELSE [gio |-> [g EXCEPT !.off = to], ret |-> ToOff(to)]

\* vsnprintf(dst + at, size, ...) of a text of len bytes: with size > 0 it
\* stores as much of the text as fits in size - 1 bytes and a NUL behind it.
Vsnprintf(buf, at, size, text) ==
  IF size = 0 THEN buf
  ELSE LET n == GIO_MIN(Len(text), size - 1)
       IN [i \in 1 .. Len(buf) |->
             IF i > at /\ i <= at + n THEN text[i - at]
             ELSE IF i = at + n + 1 THEN 0 ELSE buf[i]]

\* gio_vprintf, case GIO_MEM: fails is vsnprintf returning a negative value;
\* otherwise it returns the length of the text and the cursor advances by
\* that length clamped to what is left.
gio_vprintf(g, text, fails) ==
  IF fails THEN [gio |-> g, ret |-> -1]
  ELSE LET n == GIO_MIN(Len(text), ToSize(g.sz - g.off))
       IN [gio |-> [g EXCEPT
                      !.buf = Vsnprintf(g.buf, g.off, ToSize(g.sz - g.off), text),
                      !.off = ToSize(g.off + n)],
           ret |-> n]

Fill(n, b) == [i \in 1 .. n |-> b]

GioWrite(n, b) ==
  /\ fault = "none"
  /\ LET res == gio_write(gio, Fill(n, b), n)
     IN /\ gio' = res.gio
        /\ ret' = res.ret
        /\ fault' = IF res.ok THEN "none" ELSE "assert"
  /\ op' = "gio_write"
  /\ arg' = [n |-> n, b |-> b]
  /\ UNCHANGED <<tree, opts>>

GioRead(n) ==
  /\ fault = "none"
  /\ LET res == gio_read(gio, n)
     IN /\ gio' = res.gio
        /\ ret' = res.ret
        /\ fault' = IF res.ok THEN "none" ELSE "assert"
        /\ arg' = [n |-> n, out |-> res.out]
  /\ op' = "gio_read"
  /\ UNCHANGED <<tree, opts>>

GioSeek(off, whence) ==
  /\ fault = "none"
  /\ \E neg \in (IF Negates(off, whence) THEN Negations(off)
                                          ELSE {[v |-> 0, trap |-> FALSE]}) :
       IF neg.trap
       THEN /\ fault' = "trap"
            /\ UNCHANGED <<gio, ret>>
       ELSE /\ gio' = gio_seek(gio, off, whence, neg.v).gio
            /\ ret' = gio_seek(gio, off, whence, neg.v).ret
            /\ fault' = "none"
  /\ op' = "gio_seek"
  /\ arg' = [off |-> off, whence |-> whence]
  /\ UNCHANGED <<tree, opts>>

GioVprintf(n, fails) ==
  /\ fault = "none"
  /\ gio' = gio_vprintf(gio, Fill(n, 1), fails).gio
  /\ ret' = gio_vprintf(gio, Fill(n, 1), fails).ret
  /\ fault' = "none"
  /\ op' = "gio_vprintf"
  /\ arg' = [n |-> n, fails |-> fails]
  /\ UNCHANGED <<tree, opts>>

\* A stream over a blank buffer of any size up to MaxSz.
InitGio ==
  /\ InitTree("int")
  /\ \E sz \in 0 .. MaxSz : gio = gio_mem_init(Fill(sz, 0), sz)
  /\ opts = NoOpts

NextGio ==
  \/ \E n \in 0 .. MaxSz + 1, b \in GioBytes : GioWrite(n, b)
  \/ \E n \in 0 .. MaxSz + 1 : GioRead(n)
  \/ \E off \in OFF_MIN .. OFF_MAX, whence \in Whences : GioSeek(off, whence)
  \/ \E n \in 0 .. MaxSz + 1, fails \in BOOLEAN : GioVprintf(n, fails)

SpecGio == InitGio /\ [][NextGio]_vars

\* Where a seek is asked to put the cursor, as an integer.
SeekTarget(g, off, whence) ==
  CASE whence = SEEK_CUR -> g.off + off
    [] whence = SEEK_END -> g.sz + off
    [] OTHER -> off

\* C39: on an in-memory stream the cursor always satisfies 0 <= off <= sz;
\* gio_write and gio_read return min(requested, sz - off) and advance the
\* cursor by exactly that; a gio_seek (SEEK_SET, SEEK_CUR or SEEK_END, any
\* offset) whose target lies outside [0, sz] returns -1 and leaves the
\* cursor where it was.
C39_CursorInBounds ==
  [][/\ 0 <= gio'.off /\ gio'.off <= gio'.sz
     /\ op' \in {"gio_write", "gio_read"} =>
          /\ fault' = "none"
          /\ ret' = GIO_MIN(arg'.n, gio.sz - gio.off)
          /\ gio'.off = gio.off + ret'
     /\ (/\ op' = "gio_seek"
         /\ arg'.whence \in {SEEK_SET, SEEK_CUR, SEEK_END}
         /\ SeekTarget(gio, arg'.off, arg'.whence) \notin 0 .. gio.sz) =>
          /\ fault' = "none"
          /\ ret' = -1
          /\ gio'.off = gio.off]_vars

\* ------------------------------------------------------------ option parser
\* The longest command line handed to opts_parse.
MaxArgc == 4

\* The words of a command line, as their characters: the short name of the
\* first option, the long name of the second, a number and a word.
Tokens == {<<"-", "a">>, <<"-", "-", "b", "b">>, <<"1">>, <<"x">>}
CmdLines == UNION {[1 .. n -> Tokens] : n \in 0 .. MaxArgc}
NoArg == <<>>
NoName == <<>>

\* struct opt's flags as the set of the bits that are on.
OptFlags == {"OPT_NOPARAM", "OPT_MULPARAM", "OPT_OPTPARAM", "OPT_DEFAULT"}
ParseFlags == {"OPT_PARSE_NOFAIL", "OPT_PARSE_SHIFT"}

\* struct arr as the option parser sees it: alive is esz != 0 and items the
\* cnt elements pushed so far.  A struct opt the caller declared has it zeroed.
NoArr == [alive |-> FALSE, items |-> <<>>]
arr_alive(a) == a.alive
arr_empty(a) == Len(a.items) = 0
arr_init(a) == [alive |-> TRUE, items |-> <<>>]
arr_push(a, e) == [a EXCEPT !.items = Append(@, e)]

\* A struct opt as the caller declares it.
Opt(name, sname, flags) ==
  [name |-> name, sname |-> sname, flags |-> flags, set |-> FALSE,
   params |-> NoArr]

\* _get_opt_name: what follows "--" when the argument is that long and has no
\* third dash; _get_opt_sname: what follows "-" in an argument of two
\* characters.  NoName is NULL.
get_opt_name(word) ==
  IF Len(word) >= 3 /\ word[1] = "-" /\ word[2] = "-" /\ word[3] # "-"
  THEN SubSeq(word, 3, Len(word)) ELSE NoName

get_opt_sname(word) ==
  IF Len(word) = 2 /\ word[1] = "-" /\ word[2] # "-"
  THEN SubSeq(word, 2, 2) ELSE NoName

\* opt_match: the index of the first entry whose name or short name is the
\* argument's; 0 is NULL.
opt_match(os, word) ==
  LET hit == {i \in 1 .. Len(os) :
                \/ get_opt_name(word) # NoName /\ os[i].name = get_opt_name(word)
                \/ /\ get_opt_sname(word) # NoName
                   /\ os[i].sname # NoName
                   /\ os[i].sname = get_opt_sname(word)}
  IN IF hit = {} THEN 0 ELSE CHOOSE i \in hit : \A j \in hit : i <= j

is_opt(word) ==
  /\ word # NoArg
  /\ \/ Len(word) >= 2 /\ word[1] = "-" /\ word[2] # "-"
     \/ get_opt_name(word) # NoName

\* strtol leaves nptr at arg when the argument starts with no digit.
Digits == {"0", "1", "2", "3", "4", "5", "6", "7", "8", "9"}
StrtolFails(word) == word[1] \notin Digits

\* opts_set with no parse callback: an integer option rejects an argument
\* that is no number; otherwise the argument is pushed on the parameters.
opts_set(o, word) ==
  IF "OPT_INTEGER" \in o.flags /\ StrtolFails(word)
  THEN [opt |-> o, ret |-> -1]
  ELSE [opt |-> [o EXCEPT !.params = arr_push(o.params, word)], ret |-> 0]

opts_precheck(os) ==
  IF \E i \in 1 .. Len(os) : {"OPT_MULPARAM", "OPT_DEFAULT"} \subseteq os[i].flags
  THEN -1 ELSE 0

opts_postcheck(os) ==
  IF \E i \in 1 .. Len(os) :
       "OPT_MULPARAM" \notin os[i].flags /\ Len(os[i].params.items) > 1
  THEN -1 ELSE 0

\* _opts_cmdline_shift(argc - i, &argv[i - s], 1): the argument at i - s is
\* dropped, those behind it move up and the last slot becomes NULL.
opts_cmdline_shift(argv, at) ==
  [j \in 1 .. Len(argv) |->
     IF j < at THEN argv[j] ELSE IF j < Len(argv) THEN argv[j + 1] ELSE NoArg]

\* The state of the loop of opts_parse: the table, the option awaiting its
\* parameter (cur, 0 for NULL), the shift s, argv and whether the loop goes
\* on ("run"), has left through break ("done") or through exit ("fail").
Shifted(ps, i, flags) ==
  IF "OPT_PARSE_SHIFT" \in flags
  THEN [ps EXCEPT !.argv = opts_cmdline_shift(ps.argv, i - ps.s + 1),
                  !.s = ps.s + 1]
  ELSE ps

\* The label parse_as_opt with argument arg in round i.
ParseAsOpt(ps, word, i, flags) ==
  LET m == IF is_opt(word) THEN opt_match(ps.opts, word) ELSE 0
  IN IF word = NoArg THEN [ps EXCEPT !.cur = 0, !.st = "done"]
     ELSE IF m # 0
     THEN Shifted([ps EXCEPT !.cur = m, !.opts[m].set = TRUE], i, flags)
     ELSE IF "OPT_PARSE_NOFAIL" \notin flags
     THEN [ps EXCEPT !.cur = 0, !.st = "fail"]
     ELSE [ps EXCEPT !.cur = 0]

\* The branch if(opt) once the parameters are alive.
ParseParam(ps, word, i, flags) ==
  LET o == ps.opts[ps.cur]
      res == opts_set(o, word)
  IN IF word = NoArg \/ is_opt(word)
     THEN IF \/ "OPT_MULPARAM" \in o.flags /\ ~arr_empty(o.params)
             \/ "OPT_OPTPARAM" \in o.flags
          THEN ParseAsOpt(ps, word, i, flags)
          ELSE [ps EXCEPT !.st = "fail"]
     ELSE IF res.ret # 0 THEN [ps EXCEPT !.st = "fail"]
     ELSE Shifted([ps EXCEPT !.opts[ps.cur] = res.opt,
                             !.cur = IF "OPT_MULPARAM" \in o.flags
                                     THEN ps.cur ELSE 0], i, flags)

\* One round of the loop, for i in 0 .. argc.
ParseRound(ps, i, flags) ==
  LET word == IF i < Len(ps.argv) THEN ps.argv[i - ps.s + 1] ELSE NoArg
      o == ps.opts[ps.cur]
      alive == IF arr_alive(o.params) THEN ps
               ELSE [ps EXCEPT !.opts[ps.cur].params = arr_init(o.params)]
  IN IF ps.cur = 0 THEN ParseAsOpt(ps, word, i, flags)
     ELSE IF "OPT_NOPARAM" \in o.flags THEN ParseAsOpt(ps, word, i, flags)
     ELSE ParseParam(alive, word, i, flags)

RECURSIVE ParseLoop(_, _, _)
ParseLoop(ps, i, flags) ==
  IF ps.st # "run" \/ i > Len(ps.argv) THEN ps
  ELSE ParseLoop(ParseRound(ps, i, flags), i + 1, flags)

\* The default of every option that is still unset and has OPT_DEFAULT.
Defaults(os) ==
  [k \in 1 .. Len(os) |->
     IF ~os[k].set /\ "OPT_DEFAULT" \in os[k].flags
     THEN [os[k] EXCEPT !.set = TRUE,
                        !.params = arr_push(arr_init(os[k].params), <<"d">>)]
     ELSE os[k]]

\* opts_parse: ok turns FALSE when OPTS_ASSERT(opts_postcheck(opts) == 0)
\* fails.
opts_parse(os, argv, flags) ==
  LET ps == ParseLoop([opts |-> os, cur |-> 0, s |-> 0, argv |-> argv,
                       st |-> "run"], 0, flags)
      ds == Defaults(ps.opts)
  IN IF opts_precheck(os) # 0
     THEN [opts |-> os, argv |-> argv, ok |-> TRUE, ret |-> -1]
     ELSE IF ps.st = "fail"
     THEN [opts |-> ps.opts, argv |-> ps.argv, ok |-> TRUE, ret |-> -1]
     ELSE [opts |-> ds, argv |-> ps.argv, ok |-> opts_postcheck(ds) = 0,
           ret |-> 0]

\* opts_get(opt, &ret): ok turns FALSE when assert(opt->params.cnt == 1)
\* fails.
opts_get(o) ==
  IF ~o.set THEN [ok |-> TRUE, ret |-> FALSE]
  ELSE IF "OPT_NOPARAM" \in o.flags \/ "OPT_MULPARAM" \in o.flags
  THEN [ok |-> TRUE, ret |-> TRUE]
  ELSE [ok |-> Len(o.params.items) = 1, ret |-> TRUE]

OptsParse(argv, flags) ==
  /\ op = "init"
  /\ LET res == opts_parse(opts, argv, flags)
     IN /\ opts' = res.opts
        /\ ret' = res.ret
        /\ fault' = IF res.ok THEN "none" ELSE "assert"
        /\ arg' = [argv |-> argv, flags |-> flags, left |-> res.argv]
  /\ op' = "opts_parse"
  /\ UNCHANGED <<tree, gio>>

OptsGet(k) ==
  /\ op = "opts_parse"
  /\ fault = "none"
  /\ ret = 0
  /\ fault' = IF opts_get(opts[k]).ok THEN "none" ELSE "assert"
  /\ ret' = opts_get(opts[k]).ret
  /\ op' = "opts_get"
  /\ arg' = k
  /\ UNCHANGED <<tree, gio, opts>>

\* The tables: a first option with a short name and any of the flags that
\* say how many parameters it takes, a second one with a long name only that
\* takes one string or one integer.
InitOpts ==
  /\ InitTree("int")
  /\ gio = NoGio
  /\ \E fa \in SUBSET OptFlags,
        fb \in {{}, {"OPT_INTEGER"}} :
       opts = <<Opt(<<"a", "a">>, <<"a">>, fa), Opt(<<"b", "b">>, NoName, fb)>>

NextOpts ==
  \/ \E argv \in CmdLines, flags \in SUBSET ParseFlags : OptsParse(argv, flags)
  \/ \E k \in 1 .. 2 : OptsGet(k)

SpecOpts == InitOpts /\ [][NextOpts]_vars

\* The options the claim is about: set, and neither a switch nor a list.
Single(o) ==
  o.set /\ "OPT_NOPARAM" \notin o.flags /\ "OPT_MULPARAM" \notin o.flags

\* C40: after opts_parse has returned success every option that is set and
\* has neither OPT_NOPARAM nor OPT_MULPARAM holds exactly one parameter, so
\* neither the postcheck assertion of opts_parse nor the params.cnt == 1
\* assertion of opts_get fails, whatever the command line.
C40_OneParameter ==
  /\ op = "opts_parse" => fault = "none"
  /\ (op = "opts_parse" /\ ret = 0) =>
       \A k \in 1 .. Len(opts) : Single(opts[k]) => Len(opts[k].params.items) = 1
  /\ op = "opts_get" => fault = "none"

====
